---- MODULE Spec2Model ----
(***************************************************************************)
(* Model of the kpfleming.powerdns_auth Ansible collection: the zone       *)
(* module (plugins/modules/zone.py) and the rrset module                   *)
(* (plugins/modules/rrset.py), each run as one invocation of its main()    *)
(* against a PowerDNS server that stores what it is sent.                  *)
(*                                                                         *)
(* Python values are encoded so that TLC never compares values of          *)
(* different types: an optional value is a tuple, None == <<>> and a       *)
(* value v is <<v>>; a Python list is a sequence; a dict with optional     *)
(* keys is a function to optional values (<<>> == key absent).            *)
(***************************************************************************)
EXTENDS Integers, Sequences, FiniteSets, TLC

VARIABLES server, params, failAt, history

vars == <<server, params, failAt, history>>

\* ------------------------------------------------------------------ bounds

\* longest list value of a metadata item / master list drawn in Init
MaxListLen == 2
\* number of successive invocations with the same parameters
MaxRuns == 2
\* longest record list of an RRset drawn in Init
MaxRecords == 2
\* highest number of the remote call an invocation is made to fail at
MaxFailAt == 7

\* longest value of a record sub-field of type 'raw' drawn in Init
MaxChars == 3

\* ------------------------------------------------------- optional values

None == <<>>

Some(v) == <<v>>

\* ------------------------------------------------------ metadata registry

\* Metadata(...) instances, in construction order (dict insertion order).
\* meta is api_kind.lower().replace("-", "_").
MetaRegistry ==
    << [api_kind |-> "ALLOW-DNSUPDATE-FROM", meta |-> "allow_dnsupdate_from", type |-> "List", immutable |-> FALSE],
       [api_kind |-> "ALLOW-AXFR-FROM", meta |-> "allow_axfr_from", type |-> "List", immutable |-> FALSE],
       [api_kind |-> "ALSO-NOTIFY", meta |-> "also_notify", type |-> "List", immutable |-> FALSE],
       [api_kind |-> "AXFR-SOURCE", meta |-> "axfr_source", type |-> "String", immutable |-> FALSE],
       [api_kind |-> "FORWARD-DNSUPDATE", meta |-> "forward_dnsupdate", type |-> "Presence", immutable |-> FALSE],
       [api_kind |-> "GSS-ACCEPTOR-PRINCIPAL", meta |-> "gss_acceptor_principal", type |-> "String", immutable |-> FALSE],
       [api_kind |-> "GSS-ALLOW-AXFR-PRINCIPAL", meta |-> "gss_allow_axfr_principal", type |-> "String", immutable |-> FALSE],
       [api_kind |-> "IXFR", meta |-> "ixfr", type |-> "Binary", immutable |-> FALSE],
       [api_kind |-> "LUA-AXFR-SCRIPT", meta |-> "lua_axfr_script", type |-> "String", immutable |-> TRUE],
       [api_kind |-> "NOTIFY-DNSUPDATE", meta |-> "notify_dnsupdate", type |-> "Binary", immutable |-> FALSE],
       [api_kind |-> "PUBLISH-CDNSKEY", meta |-> "publish_cdnskey", type |-> "Binary", immutable |-> FALSE],
       [api_kind |-> "PUBLISH-CDS", meta |-> "publish_cds", type |-> "List", immutable |-> FALSE],
       [api_kind |-> "SLAVE-RENOTIFY", meta |-> "slave_renotify", type |-> "Ternary", immutable |-> FALSE],
       [api_kind |-> "SOA-EDIT-DNSUPDATE", meta |-> "soa_edit_dnsupdate", type |-> "String", immutable |-> FALSE],
       [api_kind |-> "TSIG-ALLOW-DNSUPDATE", meta |-> "tsig_allow_dnsupdate", type |-> "List", immutable |-> FALSE] >>

\* ZoneMetadata(...) instances, in construction order; api_kind is the zone
\* field (zone_kind) the item is read from and written to.
ZoneRegistry ==
    << [api_kind |-> "api_rectify", meta |-> "api_rectify", type |-> "Binary", immutable |-> FALSE],
       [api_kind |-> "slave_tsig_key_ids", meta |-> "axfr_master_tsig", type |-> "List", immutable |-> FALSE],
       [api_kind |-> "nsec3narrow", meta |-> "nsec3narrow", type |-> "Binary", immutable |-> FALSE],
       [api_kind |-> "nsec3param", meta |-> "nsec3param", type |-> "String", immutable |-> FALSE],
       [api_kind |-> "presigned", meta |-> "presigned", type |-> "Binary", immutable |-> TRUE],
       [api_kind |-> "soa_edit", meta |-> "soa_edit", type |-> "String", immutable |-> FALSE],
       [api_kind |-> "soa_edit_api", meta |-> "soa_edit_api", type |-> "String", immutable |-> FALSE],
       [api_kind |-> "master_tsig_key_ids", meta |-> "tsig_allow_axfr", type |-> "List", immutable |-> FALSE] >>

Range(s) == {s[i] : i \in DOMAIN s}

\* a == b: the lists hold the same elements in the same order
sorted_equal_as_ordered(a, b) == a = b

\* sorted(a) == sorted(b): the lists hold the same elements, each as often
sorted_equal(a, b) ==
    /\ Len(a) = Len(b)
    /\ \A x \in Range(a) \cup Range(b) :
          Cardinality({i \in DOMAIN a : a[i] = x}) = Cardinality({i \in DOMAIN b : b[i] = x})

ApiKinds == {m.api_kind : m \in Range(MetaRegistry)}

ZoneKinds == {m.api_kind : m \in Range(ZoneRegistry)}

MetaNames == {m.meta : m \in Range(MetaRegistry)}

ZoneMetaNames == {m.meta : m \in Range(ZoneRegistry)}

AllMetaNames == MetaNames \cup ZoneMetaNames

\* Metadata.by_meta / ZoneMetadata.by_meta
by_meta(registry, meta) == CHOOSE m \in Range(registry) : m.meta = meta

\* the sub-options of the 'metadata' parameter, in argument-spec order
MetaArgOrder ==
    << "allow_axfr_from", "allow_dnsupdate_from", "also_notify", "api_rectify",
       "axfr_source", "axfr_master_tsig", "forward_dnsupdate",
       "gss_acceptor_principal", "gss_allow_axfr_principal", "ixfr",
       "notify_dnsupdate", "nsec3narrow", "nsec3param", "publish_cdnskey",
       "publish_cds", "slave_renotify", "soa_edit", "soa_edit_api",
       "soa_edit_dnsupdate", "tsig_allow_axfr", "tsig_allow_dnsupdate" >>

MetaArgs == Range(MetaArgOrder)

\* sub-options that the argument spec fills with a default when omitted
MetaArgDefault(meta) ==
    IF meta \in {"soa_edit_api", "soa_edit_dnsupdate"} THEN Some("DEFAULT") ELSE None

\* default() of each value class
Default(type) ==
    CASE type = "Binary" -> Some(FALSE)
      [] type = "Presence" -> Some(FALSE)
      [] type = "Ternary" -> None
      [] type = "List" -> Some(<<>>)
      [] type = "String" -> Some("")

\* Metadata.value_or_default / ZoneMetadata.value_or_default
value_or_default(type, value) == IF value = None THEN Default(type) ELSE value

\* new_user_meta.get(k): None for a key the parameter does not carry
MetaGet(user_meta, meta) == IF meta \in DOMAIN user_meta THEN user_meta[meta] ELSE None

\* ------------------------------------------------------------ remote calls

\* one call through an API wrapper method: op is the wrapped method, kind the
\* metadata_kind argument ("" when there is none), payload the metadata list
\* or the zone_struct (<<>> when there is none)
Call(op, kind, payload) == [op |-> op, kind |-> kind, payload |-> payload]

Modify(api_kind, metadata) == Call("modifyMetadata", api_kind, metadata)

Delete(api_kind) == Call("deleteMetadata", api_kind, <<>>)

MutatingOps ==
    {"createZone", "putZone", "deleteZone", "notifyZone", "axfrRetrieveZone",
     "modifyMetadata", "deleteMetadata", "patchZone",
     "createTSIGKey", "putTSIGKey", "deleteTSIGKey",
     "createCryptokey", "modifyCryptokey", "deleteCryptokey"}

\* ------------------------------------------------- Metadata value classes

MetadataBinaryValue_user_meta_from_api(api_meta_item) == Some(api_meta_item[1] = "1")

\* MetadataBinaryValue.set writing a false value as "0"
MetadataBinaryValue_set_writes_false(api_kind, value) ==
    IF value = Some(TRUE) THEN << Modify(api_kind, <<"1">>) >> ELSE << Modify(api_kind, <<"0">>) >>

MetadataBinaryValue_set(api_kind, value) ==
    IF value = Some(TRUE) THEN << Modify(api_kind, <<"1">>) >> ELSE <<>>

\* MetadataBinaryValue.update without its comparison of newval with oldval
MetadataBinaryValue_update_undiffed(api_kind, oldval, newval) ==
    IF newval = Some(TRUE)
    THEN [ret |-> TRUE, calls |-> << Modify(api_kind, <<"1">>) >>]
    ELSE [ret |-> TRUE, calls |-> << Delete(api_kind) >>]

MetadataBinaryValue_update(api_kind, oldval, newval) ==
    IF newval = oldval THEN [ret |-> FALSE, calls |-> <<>>]
    ELSE IF newval = Some(TRUE)
         THEN [ret |-> TRUE, calls |-> << Modify(api_kind, <<"1">>) >>]
         ELSE [ret |-> TRUE, calls |-> << Delete(api_kind) >>]

\* a Presence item decoded from its value, as a Boolean item is
MetadataBinaryPresence_user_meta_from_api_by_value(api_meta_item) == Some(api_meta_item[1] = "1")

MetadataBinaryPresence_user_meta_from_api(api_meta_item) == Some(TRUE)

MetadataBinaryPresence_set(api_kind, value) ==
    IF value = Some(TRUE) THEN << Modify(api_kind, <<"">>) >> ELSE <<>>

MetadataBinaryPresence_update(api_kind, oldval, newval) ==
    IF newval = oldval THEN [ret |-> FALSE, calls |-> <<>>]
    ELSE IF newval = Some(TRUE)
         THEN [ret |-> TRUE, calls |-> << Modify(api_kind, <<"">>) >>]
         ELSE [ret |-> TRUE, calls |-> << Delete(api_kind) >>]

MetadataTernaryValue_user_meta_from_api(api_meta_item) == Some(api_meta_item[1] = "1")

MetadataTernaryValue_set(api_kind, value) ==
    IF value # None
    THEN IF value = Some(TRUE)
         THEN << Modify(api_kind, <<"1">>) >>
         ELSE << Modify(api_kind, <<"0">>) >>
    ELSE <<>>

\* MetadataTernaryValue.update encoding an unset value as "0" instead of
\* deleting the item
MetadataTernaryValue_update_unset_as_false(api_kind, oldval, newval) ==
    IF newval = oldval THEN [ret |-> FALSE, calls |-> <<>>]
    ELSE IF newval = Some(TRUE)
         THEN [ret |-> TRUE, calls |-> << Modify(api_kind, <<"1">>) >>]
         ELSE [ret |-> TRUE, calls |-> << Modify(api_kind, <<"0">>) >>]

MetadataTernaryValue_update(api_kind, oldval, newval) ==
    IF newval = oldval THEN [ret |-> FALSE, calls |-> <<>>]
    ELSE IF newval # None
         THEN IF newval = Some(TRUE)
              THEN [ret |-> TRUE, calls |-> << Modify(api_kind, <<"1">>) >>]
              ELSE [ret |-> TRUE, calls |-> << Modify(api_kind, <<"0">>) >>]
         ELSE [ret |-> TRUE, calls |-> << Delete(api_kind) >>]

MetadataListValue_user_meta_from_api(api_meta_item) == Some(api_meta_item)

MetadataListValue_set(api_kind, value) ==
    IF Len(value[1]) # 0 THEN << Modify(api_kind, value[1]) >> ELSE <<>>

\* MetadataListValue.update comparing the lists as sorted lists
MetadataListValue_update_sorted(api_kind, oldval, newval) ==
    IF sorted_equal(newval[1], oldval[1]) THEN [ret |-> FALSE, calls |-> <<>>]
    ELSE IF Len(newval[1]) # 0
         THEN [ret |-> TRUE, calls |-> << Modify(api_kind, newval[1]) >>]
         ELSE [ret |-> TRUE, calls |-> << Delete(api_kind) >>]

\* MetadataListValue.update storing an empty list instead of deleting the item
MetadataListValue_update_stores_empty(api_kind, oldval, newval) ==
    IF newval = oldval THEN [ret |-> FALSE, calls |-> <<>>]
    ELSE [ret |-> TRUE, calls |-> << Modify(api_kind, newval[1]) >>]

MetadataListValue_update(api_kind, oldval, newval) ==
    IF newval = oldval THEN [ret |-> FALSE, calls |-> <<>>]
    ELSE IF Len(newval[1]) # 0
         THEN [ret |-> TRUE, calls |-> << Modify(api_kind, newval[1]) >>]
         ELSE [ret |-> TRUE, calls |-> << Delete(api_kind) >>]

MetadataStringValue_user_meta_from_api(api_meta_item) == Some(api_meta_item[1])

MetadataStringValue_set(api_kind, value) ==
    IF value[1] # "" THEN << Modify(api_kind, << value[1] >>) >> ELSE <<>>

\* MetadataStringValue.update storing an empty string instead of deleting the
\* item
MetadataStringValue_update_stores_empty(api_kind, oldval, newval) ==
    IF newval = oldval THEN [ret |-> FALSE, calls |-> <<>>]
    ELSE [ret |-> TRUE, calls |-> << Modify(api_kind, << newval[1] >>) >>]

MetadataStringValue_update(api_kind, oldval, newval) ==
    IF newval = oldval THEN [ret |-> FALSE, calls |-> <<>>]
    ELSE IF newval[1] # ""
         THEN [ret |-> TRUE, calls |-> << Modify(api_kind, << newval[1] >>) >>]
         ELSE [ret |-> TRUE, calls |-> << Delete(api_kind) >>]

\* dispatch on the class of the registry entry m
Metadata_item_from_api(m, api_meta_item) ==
    CASE m.type = "Binary" -> MetadataBinaryValue_user_meta_from_api(api_meta_item)
      [] m.type = "Presence" -> MetadataBinaryPresence_user_meta_from_api(api_meta_item)
      [] m.type = "Ternary" -> MetadataTernaryValue_user_meta_from_api(api_meta_item)
      [] m.type = "List" -> MetadataListValue_user_meta_from_api(api_meta_item)
      [] m.type = "String" -> MetadataStringValue_user_meta_from_api(api_meta_item)

Metadata_set(m, value) ==
    CASE m.type = "Binary" -> MetadataBinaryValue_set(m.api_kind, value)
      [] m.type = "Presence" -> MetadataBinaryPresence_set(m.api_kind, value)
      [] m.type = "Ternary" -> MetadataTernaryValue_set(m.api_kind, value)
      [] m.type = "List" -> MetadataListValue_set(m.api_kind, value)
      [] m.type = "String" -> MetadataStringValue_set(m.api_kind, value)

Metadata_update(m, oldval, newval) ==
    CASE m.type = "Binary" -> MetadataBinaryValue_update(m.api_kind, oldval, newval)
      [] m.type = "Presence" -> MetadataBinaryPresence_update(m.api_kind, oldval, newval)
      [] m.type = "Ternary" -> MetadataTernaryValue_update(m.api_kind, oldval, newval)
      [] m.type = "List" -> MetadataListValue_update(m.api_kind, oldval, newval)
      [] m.type = "String" -> MetadataStringValue_update(m.api_kind, oldval, newval)

\* Metadata.user_meta_from_api: defaults, overridden by the items the server
\* lists; an item left None (an unset Ternary) is removed, so that .get()
\* returns None for it
Metadata_user_meta_from_api(api_meta) ==
    [n \in MetaNames |->
        LET m == by_meta(MetaRegistry, n)
        IN IF api_meta[m.api_kind] = None
           THEN Default(m.type)
           ELSE Metadata_item_from_api(m, api_meta[m.api_kind][1])]

\* Metadata.setters: one setter per entry of the 'metadata' parameter that
\* names a mutable Metadata item
Metadata_setters(user_meta) ==
    LET names == SelectSeq(MetaArgOrder, LAMBDA n : n \in DOMAIN user_meta /\ n \in MetaNames)
        items == [i \in DOMAIN names |-> by_meta(MetaRegistry, names[i])]
    IN SelectSeq(items, LAMBDA m : ~m.immutable)

\* Metadata.updaters without its test of the immutable flag
Metadata_updaters_unfiltered == MetaRegistry

\* Metadata.updaters: one updater per mutable Metadata item of the registry
Metadata_updaters ==
    SelectSeq(MetaRegistry, LAMBDA m : ~m.immutable)

\* --------------------------------------------- ZoneMetadata value classes

ZoneMetadataBinaryValue_user_meta_from_api(zone_meta_item) == Some(zone_meta_item = "1")

ZoneMetadataBinaryValue_set(zone_kind, value, zone_struct) ==
    IF value = Some(TRUE) THEN [zone_struct EXCEPT ![zone_kind] = Some("1")] ELSE zone_struct

ZoneMetadataBinaryValue_update(zone_kind, oldval, newval, zone_struct) ==
    IF newval # oldval
    THEN IF newval = Some(TRUE)
         THEN [zone_struct EXCEPT ![zone_kind] = Some("1")]
         ELSE [zone_struct EXCEPT ![zone_kind] = Some("0")]
    ELSE zone_struct

ZoneMetadataListValue_user_meta_from_api(zone_meta_item) == Some(zone_meta_item)

ZoneMetadataListValue_set(zone_kind, value, zone_struct) ==
    IF value # Some(<<>>) THEN [zone_struct EXCEPT ![zone_kind] = value] ELSE zone_struct

ZoneMetadataListValue_update(zone_kind, oldval, newval, zone_struct) ==
    IF newval # oldval THEN [zone_struct EXCEPT ![zone_kind] = newval] ELSE zone_struct

ZoneMetadataStringValue_user_meta_from_api(zone_meta_item) == Some(zone_meta_item)

ZoneMetadataStringValue_set(zone_kind, value, zone_struct) ==
    IF value # Some("") THEN [zone_struct EXCEPT ![zone_kind] = value] ELSE zone_struct

ZoneMetadataStringValue_update(zone_kind, oldval, newval, zone_struct) ==
    IF newval # oldval THEN [zone_struct EXCEPT ![zone_kind] = newval] ELSE zone_struct

ZoneMetadata_item_from_api(m, zone_meta_item) ==
    CASE m.type = "Binary" -> ZoneMetadataBinaryValue_user_meta_from_api(zone_meta_item)
      [] m.type = "List" -> ZoneMetadataListValue_user_meta_from_api(zone_meta_item)
      [] m.type = "String" -> ZoneMetadataStringValue_user_meta_from_api(zone_meta_item)

ZoneMetadata_set(m, value, zone_struct) ==
    CASE m.type = "Binary" -> ZoneMetadataBinaryValue_set(m.api_kind, value, zone_struct)
      [] m.type = "List" -> ZoneMetadataListValue_set(m.api_kind, value, zone_struct)
      [] m.type = "String" -> ZoneMetadataStringValue_set(m.api_kind, value, zone_struct)

ZoneMetadata_update(m, oldval, newval, zone_struct) ==
    CASE m.type = "Binary" -> ZoneMetadataBinaryValue_update(m.api_kind, oldval, newval, zone_struct)
      [] m.type = "List" -> ZoneMetadataListValue_update(m.api_kind, oldval, newval, zone_struct)
      [] m.type = "String" -> ZoneMetadataStringValue_update(m.api_kind, oldval, newval, zone_struct)

\* ZoneMetadata.user_meta_from_api: defaults, overridden by the fields the
\* zone object carries
ZoneMetadata_user_meta_from_api(api_zone) ==
    [n \in ZoneMetaNames |->
        LET m == by_meta(ZoneRegistry, n)
        IN IF api_zone.fields[m.api_kind] = None
           THEN Default(m.type)
           ELSE ZoneMetadata_item_from_api(m, api_zone.fields[m.api_kind][1])]

\* ZoneMetadata.setters
ZoneMetadata_setters(user_meta) ==
    LET names == SelectSeq(MetaArgOrder, LAMBDA n : n \in DOMAIN user_meta /\ n \in ZoneMetaNames)
        items == [i \in DOMAIN names |-> by_meta(ZoneRegistry, names[i])]
    IN SelectSeq(items, LAMBDA m : ~m.immutable)

\* ZoneMetadata.updaters
ZoneMetadata_updaters ==
    SelectSeq(ZoneRegistry, LAMBDA m : ~m.immutable)

\* ------------------------------------------------------------- the server

ZoneName == "d1.example."

ZoneId == "d1.example."

\* keys a zone_struct may carry
ZoneStructKeys ==
    {"name", "kind", "nameservers", "rrsets", "masters", "account", "catalog"} \cup ZoneKinds

EmptyStruct == [k \in ZoneStructKeys |-> None]

\* len(zone_struct)
StructLen(zone_struct) == Cardinality({k \in ZoneStructKeys : zone_struct[k] # None})

\* the server without the zone
NoZone ==
    [exists |-> FALSE, kind |-> "Native", account |-> "", catalog |-> None,
     masters |-> <<>>, fields |-> [k \in ZoneKinds |-> None],
     meta |-> [k \in ApiKinds |-> None], rrsets |-> <<>>,
     tsigkeys |-> <<>>, cryptokeys |-> <<>>]

OrElse(opt, dflt) == IF opt = None THEN dflt ELSE opt[1]

\* the server's RRsets after one entry of a patch: DELETE, and REPLACE with
\* no records, remove the RRset of (name, type); REPLACE with records stores
\* them, with the ttl, in place of the RRset or as a new one
PatchEntry(rrsets, entry) ==
    LET same(r) == r.name = entry.name /\ r.type = entry.type
        stored == [name |-> entry.name, type |-> entry.type, ttl |-> entry.ttl[1],
                   records |-> entry.records[1]]
    IN IF entry.changetype = "DELETE" \/ entry.records = None \/ entry.records = Some(<<>>)
       THEN SelectSeq(rrsets, LAMBDA r : ~same(r))
       ELSE IF \E i \in DOMAIN rrsets : same(rrsets[i])
            THEN [i \in DOMAIN rrsets |-> IF same(rrsets[i]) THEN stored ELSE rrsets[i]]
            ELSE Append(rrsets, stored)

RECURSIVE PatchRRsets(_, _)
\* the entries of a patch, applied in order
PatchRRsets(rrsets, entries) ==
    IF entries = <<>> THEN rrsets
    ELSE PatchRRsets(PatchEntry(rrsets, Head(entries)), Tail(entries))

\* str(n)
Str(n) == << "str", n >>

\* the key value the server makes up for a TSIG key created without one
GeneratedKey == "generated"

\* the TSIG key the server stores for a createTSIGKey payload: its id is made
\* from its name
StoredTSIGKey(key_struct) ==
    [id |-> key_struct.name, name |-> key_struct.name, algorithm |-> key_struct.algorithm,
     key |-> OrElse(key_struct.key, GeneratedKey)]

\* the cryptokey the server stores for a createCryptokey payload, under an
\* id larger than those it holds
StoredCryptokey(cryptokeys, cryptokey) ==
    LET ids == {cryptokeys[i].id : i \in DOMAIN cryptokeys}
        next == IF ids = {} THEN 1 ELSE 1 + CHOOSE n \in ids : \A o \in ids : o <= n
    IN [id |-> next, keytype |-> cryptokey.keytype, active |-> cryptokey.active,
        published |-> cryptokey.published]

\* the effect of a successful call on the server, which stores what it is sent
ApplyCall(srv, call) ==
    CASE call.op = "createZone" ->
            [NoZone EXCEPT !.exists = TRUE,
                           !.tsigkeys = srv.tsigkeys,
                           !.kind = call.payload["kind"][1],
                           !.account = OrElse(call.payload["account"], ""),
                           !.catalog = call.payload["catalog"],
                           !.masters = OrElse(call.payload["masters"], <<>>),
                           !.fields = [k \in ZoneKinds |-> call.payload[k]],
                           !.rrsets = OrElse(call.payload["rrsets"], <<>>)]
      [] call.op = "putZone" ->
            [srv EXCEPT !.kind = OrElse(call.payload["kind"], @),
                        !.account = OrElse(call.payload["account"], @),
                        !.catalog = IF call.payload["catalog"] = None THEN @ ELSE call.payload["catalog"],
                        !.masters = OrElse(call.payload["masters"], @),
                        !.fields = [k \in ZoneKinds |->
                                       IF call.payload[k] = None THEN @[k] ELSE call.payload[k]]]
      [] call.op = "deleteZone" -> [NoZone EXCEPT !.tsigkeys = srv.tsigkeys]
      [] call.op = "modifyMetadata" -> [srv EXCEPT !.meta[call.kind] = Some(call.payload)]
      [] call.op = "deleteMetadata" -> [srv EXCEPT !.meta[call.kind] = None]
      [] call.op = "patchZone" -> [srv EXCEPT !.rrsets = PatchRRsets(@, call.payload)]
      [] OTHER -> srv

\* the effect of a successful call of the tsigkey and cryptokey modules on
\* the server, which stores what it is sent
ApplyKeyCall(srv, call) ==
    CASE call.op = "createTSIGKey" -> [srv EXCEPT !.tsigkeys = Append(@, StoredTSIGKey(call.payload))]
      [] call.op = "putTSIGKey" ->
            [srv EXCEPT !.tsigkeys =
                [i \in DOMAIN @ |->
                    IF @[i].id = call.kind
                    THEN [@[i] EXCEPT !.algorithm = OrElse(call.payload.algorithm, @),
                                      !.key = OrElse(call.payload.key, @)]
                    ELSE @[i]]]
      [] call.op = "deleteTSIGKey" ->
            [srv EXCEPT !.tsigkeys = SelectSeq(@, LAMBDA k : k.id # call.kind)]
      [] call.op = "createCryptokey" ->
            [srv EXCEPT !.cryptokeys = Append(@, StoredCryptokey(@, call.payload))]
      [] call.op = "modifyCryptokey" ->
            [srv EXCEPT !.cryptokeys =
                [i \in DOMAIN @ |->
                    IF Str(@[i].id) = call.kind
                    THEN [@[i] EXCEPT !.active = call.payload.active,
                                      !.published = call.payload.published]
                    ELSE @[i]]]
      [] call.op = "deleteCryptokey" ->
            [srv EXCEPT !.cryptokeys = SelectSeq(@, LAMBDA k : Str(k.id) # call.kind)]
      [] OTHER -> srv

\* the error text of the server's answer, e.swagger_result['error']
RemoteErrorText == "remote error"

\* a handler that swallows the exception and lets main() go on
api_exception_handler_swallows(ctx, call) ==
    [ctx EXCEPT !.calls = Append(@, call), !.ids = Append(@, ctx.zone_id)]

\* the wrapped call raised one of api_exceptions_to_catch: fail_json ends the
\* invocation with the operation's name, the server's error text and the
\* result as it stands
api_exception_handler(ctx, call) ==
    [ctx EXCEPT !.calls = Append(@, call), !.ids = Append(@, ctx.zone_id), !.failed = TRUE,
                !.msg = "API operation " \o call.op \o " returned '" \o RemoteErrorText \o "'"]

\* a wrapper that is never given the zone id
set_zone_id_forgets(ctx, zone_id) == ctx

\* api_zone_client.zone_id = zone_id (and the same for the metadata and
\* cryptokey wrappers): the calls made from here on carry the id
set_zone_id(ctx, zone_id) == [ctx EXCEPT !.zone_id = Some(zone_id)]

\* one wrapper method under api_exception_handler: the call numbered failAt
\* of the invocation raises, every other call takes effect on the server
Do(ctx, call) ==
    IF Len(ctx.calls) + 1 = ctx.failAt
    THEN api_exception_handler(ctx, call)
    ELSE [ctx EXCEPT !.calls = Append(@, call), !.ids = Append(@, ctx.zone_id),
                     !.srv = ApplyCall(@, call)]

\* the api_exception_handler of tsigkey.py and of the cryptokey wrappers
\* around one wrapper method, as Do
DoKey(ctx, call) ==
    IF Len(ctx.calls) + 1 = ctx.failAt
    THEN api_exception_handler(ctx, call)
    ELSE [ctx EXCEPT !.calls = Append(@, call), !.ids = Append(@, ctx.zone_id),
                     !.srv = ApplyKeyCall(@, call)]

\* module.fail_json(msg=..., **result)
Fail(ctx, msg) == [ctx EXCEPT !.failed = TRUE, !.msg = msg]

RECURSIVE RunCalls(_, _)
\* the calls of a list, in order, up to the first that fails
RunCalls(ctx, calls) ==
    IF calls = <<>> \/ ctx.failed THEN ctx
    ELSE RunCalls(Do(ctx, Head(calls)), Tail(calls))

\* ------------------------------------------------------- zone.py: main()

build_zone_result(srv) ==
    [exists |-> TRUE, name |-> ZoneName, kind |-> srv.kind, account |-> srv.account,
     masters |-> srv.masters, catalog |-> srv.catalog,
     metadata |-> [n \in AllMetaNames |->
                      IF n \in ZoneMetaNames
                      THEN ZoneMetadata_user_meta_from_api(srv)[n]
                      ELSE Metadata_user_meta_from_api(srv.meta)[n]]]

\* build_zone_result with its two reads, storing result["zone"]
read_zone_result(ctx) ==
    LET c == RunCalls(ctx, << Call("listZone", "", <<>>), Call("listMetadata", "", <<>>) >>)
    IN IF c.failed THEN c ELSE [c EXCEPT !.zone = Some(build_zone_result(c.srv))]

RECURSIVE apply_zone_setters(_, _, _)
\* for setter in ZoneMetadata.setters(metadata): setter(zone_struct)
apply_zone_setters(setters, user_meta, zone_struct) ==
    IF setters = <<>> THEN zone_struct
    ELSE LET m == Head(setters)
         IN apply_zone_setters(Tail(setters), user_meta,
                ZoneMetadata_set(m, value_or_default(m.type, user_meta[m.meta]), zone_struct))

RECURSIVE apply_zone_updaters(_, _, _, _)
\* for updater in ZoneMetadata.updaters(old, new): updater(zone_struct)
apply_zone_updaters(updaters, old_user_meta, new_user_meta, zone_struct) ==
    IF updaters = <<>> THEN zone_struct
    ELSE LET m == Head(updaters)
         IN apply_zone_updaters(Tail(updaters), old_user_meta, new_user_meta,
                ZoneMetadata_update(m, old_user_meta[m.meta],
                                    value_or_default(m.type, MetaGet(new_user_meta, m.meta)),
                                    zone_struct))

RECURSIVE run_setters(_, _, _)
\* for setter in Metadata.setters(metadata): setter(api_zone_metadata_client)
run_setters(ctx, setters, user_meta) ==
    IF setters = <<>> \/ ctx.failed THEN ctx
    ELSE LET m == Head(setters)
         IN run_setters(RunCalls(ctx, Metadata_set(m, value_or_default(m.type, user_meta[m.meta]))),
                        Tail(setters), user_meta)

RECURSIVE run_updaters(_, _, _, _)
\* for updater in Metadata.updaters(old, new):
\*     if updater(api_zone_metadata_client): result["changed"] = True
run_updaters(ctx, updaters, old_user_meta, new_user_meta) ==
    IF updaters = <<>> \/ ctx.failed THEN ctx
    ELSE LET m == Head(updaters)
             u == Metadata_update(m, old_user_meta[m.meta],
                                  value_or_default(m.type, MetaGet(new_user_meta, m.meta)))
             c == RunCalls(ctx, u.calls)
         IN IF c.failed THEN c
            ELSE run_updaters([c EXCEPT !.changed = @ \/ u.ret], Tail(updaters),
                              old_user_meta, new_user_meta)

\* Python truthiness of an optional string parameter
TruthyStr(opt) == opt # None /\ opt[1] # ""

\* Python truthiness of an optional list parameter
TruthyList(opt) == opt # None /\ Len(opt[1]) # 0

\* the SOA and NS rrsets, all nameservers joined into one NS record
creation_rrsets_ns_joined(props) ==
    << [name |-> ZoneName, type |-> "SOA", ttl |-> Str(props.ttl),
        records |-> << [disabled |-> FALSE,
                        content |-> << props.soa[1].mname, props.soa[1].rname,
                                       Str(props.soa[1].serial), Str(props.soa[1].refresh),
                                       Str(props.soa[1].retry), Str(props.soa[1].expire),
                                       Str(props.soa[1].ttl) >>] >>],
       [name |-> ZoneName, type |-> "NS", ttl |-> Str(props.ttl),
        records |-> << [disabled |-> FALSE, content |-> props.nameservers[1]] >>] >>

\* the SOA and NS rrsets built from the properties at creation
creation_rrsets(props) ==
    << [name |-> ZoneName, type |-> "SOA", ttl |-> Str(props.ttl),
        records |-> << [disabled |-> FALSE,
                        content |-> << props.soa[1].mname, props.soa[1].rname,
                                       Str(props.soa[1].serial), Str(props.soa[1].refresh),
                                       Str(props.soa[1].retry), Str(props.soa[1].expire),
                                       Str(props.soa[1].ttl) >>] >>],
       [name |-> ZoneName, type |-> "NS", ttl |-> Str(props.ttl),
        records |-> [i \in DOMAIN props.nameservers[1] |->
                        [disabled |-> FALSE, content |-> props.nameservers[1][i]]]] >>

\* the caller's rrsets appended at creation, ttl as a string
caller_rrsets(props) ==
    IF TruthyList(props.rrsets)
    THEN [i \in DOMAIN props.rrsets[1] |-> [props.rrsets[1][i] EXCEPT !.ttl = Str(@)]]
    ELSE <<>>

\* main(), state=present, zone not found: the zone_struct of createZone, or
\* the message of the validation that fails
creation_struct(p) ==
    IF p.properties = None
    THEN [ok |-> FALSE, msg |-> "'properties' must be specified for zone creation"]
    ELSE LET props == p.properties[1]
             primary == props.kind \in {"Native", "Master", "Producer"}
             zs0 == [EmptyStruct EXCEPT !["name"] = Some(ZoneName), !["kind"] = Some(props.kind)]
             zs1 == IF primary
                    THEN [zs0 EXCEPT !["nameservers"] = Some(<<>>),
                                     !["rrsets"] = Some(creation_rrsets(props) \o caller_rrsets(props))]
                    ELSE zs0
             zs2 == IF props.kind \in {"Slave", "Consumer"}
                    THEN [zs1 EXCEPT !["masters"] = props.masters]
                    ELSE zs1
             zs3 == IF TruthyStr(props.account) THEN [zs2 EXCEPT !["account"] = props.account] ELSE zs2
             zs4 == IF TruthyStr(props.catalog) THEN [zs3 EXCEPT !["catalog"] = props.catalog] ELSE zs3
             zs5 == IF p.metadata # None
                    THEN apply_zone_setters(ZoneMetadata_setters(p.metadata[1]), p.metadata[1], zs4)
                    ELSE zs4
         IN IF primary /\ props.soa = None
            THEN [ok |-> FALSE, msg |-> "'properties -> soa' must be specified for zone creation"]
            ELSE IF primary /\ ~TruthyList(props.nameservers)
            THEN [ok |-> FALSE, msg |-> "'properties -> nameservers' must be specified for zone creation"]
            ELSE IF primary /\ TruthyList(props.rrsets)
                    /\ \E i \in DOMAIN props.rrsets[1] : props.rrsets[1][i].type \in {"SOA", "NS"}
            THEN [ok |-> FALSE, msg |-> "type is not permitted in 'properties -> rrsets'"]
            ELSE [ok |-> TRUE, zone_struct |-> zs5]

\* state=present, zone not found, createZone sent before the properties are
\* validated
zone_create_validates_late(ctx, p) ==
    LET made == creation_struct(p)
        c1 == Do(ctx, Call("createZone", "",
                           IF made.ok THEN made.zone_struct
                           ELSE [EmptyStruct EXCEPT !["name"] = Some(ZoneName),
                                                    !["kind"] = Some("Native")]))
        c2 == set_zone_id([c1 EXCEPT !.changed = TRUE], p.name)
        c3 == IF p.metadata # None
              THEN run_setters(c2, Metadata_setters(p.metadata[1]), p.metadata[1])
              ELSE c2
    IN IF c1.failed THEN c1
       ELSE IF ~made.ok THEN Fail(c2, made.msg)
       ELSE IF c3.failed THEN c3
       ELSE read_zone_result(c3)

\* main(), state=present, zone not found
zone_create(ctx, p) ==
    LET made == creation_struct(p)
    IN IF ~made.ok THEN Fail(ctx, made.msg)
       ELSE LET c1 == Do(ctx, Call("createZone", "", made.zone_struct))
                c2 == set_zone_id([c1 EXCEPT !.changed = TRUE], p.name)
                c3 == IF p.metadata # None
                      THEN run_setters(c2, Metadata_setters(p.metadata[1]), p.metadata[1])
                      ELSE c2
            IN IF c1.failed THEN c1
               ELSE IF c3.failed THEN c3
               ELSE read_zone_result(c3)

\* main(), state=present, zone found: the zone_struct of putZone
update_struct(zone_info, old_user_meta, p) ==
    LET zs0 == EmptyStruct
        props == p.properties[1]
        zs1 == IF p.properties # None /\ zone_info.kind # props.kind
               THEN [zs0 EXCEPT !["kind"] = Some(props.kind)]
               ELSE zs0
        zs2 == IF /\ p.properties # None
                  /\ props.kind \in {"Slave", "Consumer"}
                  /\ TruthyList(props.masters)
                  /\ ~sorted_equal(zone_info.masters, props.masters[1])
               THEN [zs1 EXCEPT !["masters"] = props.masters]
               ELSE zs1
        zs3 == IF p.properties # None /\ TruthyStr(props.account) /\ zone_info.account # props.account[1]
               THEN [zs2 EXCEPT !["account"] = props.account]
               ELSE zs2
        zs4 == IF p.properties # None /\ TruthyStr(props.catalog) /\ zone_info.catalog # props.catalog
               THEN [zs3 EXCEPT !["catalog"] = props.catalog]
               ELSE zs3
    IN IF p.metadata # None
       THEN apply_zone_updaters(ZoneMetadata_updaters, old_user_meta, p.metadata[1], zs4)
       ELSE zs4

\* an update that leaves the metadata endpoint alone
zone_update_without_metadata(ctx, p) ==
    LET old_user_meta == ctx.zone[1].metadata
        zone_struct == update_struct(ctx.srv, old_user_meta, p)
        c1 == IF StructLen(zone_struct) # 0
              THEN LET c == Do(ctx, Call("putZone", "", zone_struct))
                   IN IF c.failed THEN c ELSE [c EXCEPT !.changed = TRUE]
              ELSE ctx
    IN IF ~c1.failed /\ c1.changed THEN read_zone_result(c1) ELSE c1

\* main(), state=present, zone found
zone_update(ctx, p) ==
    LET old_user_meta == ctx.zone[1].metadata
        zone_struct == update_struct(ctx.srv, old_user_meta, p)
        c1 == IF StructLen(zone_struct) # 0
              THEN LET c == Do(ctx, Call("putZone", "", zone_struct))
                   IN IF c.failed THEN c ELSE [c EXCEPT !.changed = TRUE]
              ELSE ctx
        c2 == IF ~c1.failed /\ p.metadata # None
              THEN run_updaters(c1, Metadata_updaters, old_user_meta, p.metadata[1])
              ELSE c1
    IN IF ~c2.failed /\ c2.changed THEN read_zone_result(c2) ELSE c2

\* one call with result["changed"] set before it is made
changing_call_flags_first(ctx, op) ==
    LET c == Do(ctx, Call(op, "", <<>>))
    IN [c EXCEPT !.changed = TRUE]

\* one call that sets result["changed"] when it returns
changing_call(ctx, op) ==
    LET c == Do(ctx, Call(op, "", <<>>))
    IN IF c.failed THEN c ELSE [c EXCEPT !.changed = TRUE]

\* the kinds state=notify accepts, with Slave among them
notify_kinds_with_slave == {"Master", "Producer", "Slave"}

\* the kinds state=notify accepts
notify_kinds == {"Master", "Producer"}

\* the kinds state=retrieve accepts, with Master among them
retrieve_kinds_with_master == {"Slave", "Consumer", "Master"}

\* the kinds state=retrieve accepts
retrieve_kinds == {"Slave", "Consumer"}

\* a main() that brings the zone to the given properties under state=exists
zone_found_exists_updates(ctx, p) ==
    CASE p.state = "exists" -> IF p.properties # None THEN zone_update(ctx, p) ELSE ctx
      [] p.state = "absent" -> changing_call(ctx, "deleteZone")
      [] p.state = "notify" ->
            IF ctx.srv.kind \notin notify_kinds
            THEN Fail(ctx, "NOTIFY cannot be requested for zones of this kind")
            ELSE changing_call(ctx, "notifyZone")
      [] p.state = "retrieve" ->
            IF ctx.srv.kind \notin retrieve_kinds
            THEN Fail(ctx, "Retrieval can only be requested for zones of this kind")
            ELSE changing_call(ctx, "axfrRetrieveZone")
      [] p.state = "present" -> zone_update(ctx, p)

\* main() once the zone was found and read
zone_found(ctx, p) ==
    CASE p.state = "exists" -> ctx
      [] p.state = "absent" -> changing_call(ctx, "deleteZone")
      [] p.state = "notify" ->
            IF ctx.srv.kind \notin notify_kinds
            THEN Fail(ctx, "NOTIFY cannot be requested for zones of this kind")
            ELSE changing_call(ctx, "notifyZone")
      [] p.state = "retrieve" ->
            IF ctx.srv.kind \notin retrieve_kinds
            THEN Fail(ctx, "Retrieval can only be requested for zones of this kind")
            ELSE changing_call(ctx, "axfrRetrieveZone")
      [] p.state = "present" -> zone_update(ctx, p)

\* main() when listZones returned no zone, acting on the zone all the same
zone_missing_acts(ctx, p) ==
    CASE p.state = "exists" -> ctx
      [] p.state = "absent" -> changing_call(ctx, "deleteZone")
      [] p.state = "notify" -> changing_call(ctx, "notifyZone")
      [] p.state = "retrieve" -> changing_call(ctx, "axfrRetrieveZone")
      [] p.state = "present" -> zone_create(ctx, p)

\* main() when listZones returned no zone
zone_missing(ctx, p) ==
    CASE p.state \in {"exists", "absent"} -> ctx
      [] p.state = "notify" -> Fail(ctx, "NOTIFY cannot be requested for a non-existent zone")
      [] p.state = "retrieve" -> Fail(ctx, "Retrieval cannot be requested for a non-existent zone")
      [] p.state = "present" -> zone_create(ctx, p)

\* zone.py main(): one invocation against server srv with parameters p,
\* the remote call numbered fail (0: none) failing
zone_main(srv, p, fail) ==
    LET ctx0 == [srv |-> srv, calls |-> <<>>, changed |-> FALSE, failed |-> FALSE,
                 msg |-> "", zone |-> None, rrsets |-> None, failAt |-> fail,
                 zone_id |-> None, ids |-> <<>>]
        c0 == [ctx0 EXCEPT !.zone = Some([name |-> p.name, exists |-> FALSE])]
        c1 == Do(c0, Call("listZones", "", <<>>))
    IN IF p.check_mode THEN ctx0
       ELSE IF c1.failed THEN c1
       ELSE IF ~srv.exists THEN zone_missing(c1, p)
       ELSE LET c2 == read_zone_result(set_zone_id(c1, p.name))
            IN IF c2.failed THEN c2 ELSE zone_found(c2, p)

\* ------------------------------------------------- zone module: the runs

ZoneKindNames == {"Native", "Master", "Slave", "Producer", "Consumer"}

\* list values of length at most MaxListLen
ListsOver(elems) == UNION {[1..k -> elems] : k \in 0..MaxListLen}

\* string values a String item takes (the choices of the argument spec
\* where it has some)
StrVals(meta) ==
    CASE meta = "soa_edit" -> {"EPOCH", "NONE"}
      [] meta \in {"soa_edit_api", "soa_edit_dnsupdate"} -> {"DEFAULT", "EPOCH"}
      [] OTHER -> {"x", "y"}

\* what the server may hold for a metadata-endpoint item
RemoteMeta(m) ==
    CASE m.type \in {"Binary", "Ternary"} -> {None, Some(<<"1">>), Some(<<"0">>)}
      [] m.type = "Presence" -> {None, Some(<<"">>)}
      [] m.type = "List" -> {None} \cup {Some(l) : l \in ListsOver({"a", "b"}) \ {<<>>}}
      [] m.type = "String" -> {None} \cup {Some(<<v>>) : v \in StrVals(m.meta)}

\* what the server may hold in a zone field
RemoteField(m) ==
    CASE m.type = "Binary" -> {None, Some("1"), Some("0")}
      [] m.type = "List" -> {None} \cup {Some(l) : l \in ListsOver({"a", "b"})}
      [] m.type = "String" -> {None, Some("")} \cup {Some(v) : v \in StrVals(m.meta)}

\* what the caller may give for a sub-option of 'metadata'
Desired(m) ==
    CASE m.type \in {"Binary", "Presence", "Ternary"} -> {None, Some(TRUE), Some(FALSE)}
      [] m.type = "List" -> {None} \cup {Some(l) : l \in ListsOver({"a", "b"})}
      [] m.type = "String" ->
            IF MetaArgDefault(m.meta) # None THEN {Some(v) : v \in StrVals(m.meta)}
            ELSE IF m.meta = "soa_edit" THEN {None} \cup {Some(v) : v \in StrVals(m.meta)}
            ELSE {None, Some("")} \cup {Some(v) : v \in StrVals(m.meta)}

\* the 'metadata' parameter with every sub-option omitted
OmittedMeta == [n \in MetaArgs |-> MetaArgDefault(n)]

\* the server holding value r for item m
WithRemote(srv, m, r) ==
    IF m.meta \in ZoneMetaNames
    THEN [srv EXCEPT !.fields[m.api_kind] = r]
    ELSE [srv EXCEPT !.meta[m.api_kind] = r]

\* the 'metadata' parameter giving d for item m (an immutable item is no
\* sub-option: nothing can be given for it)
WithDesired(user_meta, m, d) ==
    IF m.meta \in MetaArgs THEN [user_meta EXCEPT ![m.meta] = d] ELSE user_meta

SoaGiven ==
    [mname |-> "localhost.", rname |-> "hostmaster.localhost.", serial |-> 1,
     refresh |-> 86400, retry |-> 7200, expire |-> 3600000, ttl |-> 172800]

NoProps ==
    [kind |-> "Native", account |-> None, catalog |-> None, masters |-> None,
     nameservers |-> None, soa |-> None, rrsets |-> None, ttl |-> 86400]

NativeProps ==
    [NoProps EXCEPT !.soa = Some(SoaGiven), !.nameservers = Some(<<"ns1.example.">>)]

ExistingZone == [NoZone EXCEPT !.exists = TRUE]

ZoneParams(state, properties, metadata) ==
    [module |-> "zone", state |-> state, check_mode |-> FALSE, name |-> ZoneName,
     properties |-> properties, metadata |-> metadata]

\* runs about one metadata item (any of the registry) and a second one
\* (NOTIFY-DNSUPDATE), in four settings of zone and properties; no remote
\* call failing or, for some of the runs, one of the first run
InitZoneMeta ==
    \E setting \in {"update", "update-kind", "create", "create-slave"} :
    \E given \in BOOLEAN :
    \E m \in Range(MetaRegistry) \cup Range(ZoneRegistry) :
    \E r \in (IF m.meta \in ZoneMetaNames THEN RemoteField(m) ELSE RemoteMeta(m)) :
    \E d \in (IF m.meta \in MetaArgs THEN Desired(m) ELSE {None}) :
    \E r2 \in {None, Some(<<"1">>)} :
    \E d2 \in {None, Some(TRUE), Some(FALSE)} :
    \E fail \in 0..MaxFailAt :
        LET m2 == by_meta(MetaRegistry, "notify_dnsupdate")
            held == WithRemote(WithRemote(ExistingZone, m2, r2), m, r)
            wanted == WithDesired(WithDesired(OmittedMeta, m2, d2), m, d)
        IN /\ server = IF setting \in {"create", "create-slave"} THEN NoZone ELSE held
           /\ params = ZoneParams("present",
                          CASE setting = "update" -> None
                            [] setting = "update-kind" -> Some([NoProps EXCEPT !.kind = "Master"])
                            [] setting = "create" -> Some(NativeProps)
                            [] setting = "create-slave" ->
                                 Some([NoProps EXCEPT !.kind = "Slave",
                                                      !.masters = Some(<<"192.0.2.1">>)]),
                          IF given THEN Some(wanted) ELSE None)
           /\ fail # 0 => (given /\ r2 = None /\ d2 = Some(TRUE)
                           /\ setting \in {"create", "update", "update-kind"})
           /\ failAt = fail
           /\ history = <<>>

\* runs about the zone properties, with no metadata given: an update of a
\* zone the server holds, or a creation with or without soa and nameservers
InitZoneProps ==
    \E exists \in BOOLEAN :
    \E kind \in {"Native", "Slave"} :
    \E masters \in {<<>>, <<"192.0.2.1", "192.0.2.2">>} :
    \E account \in {"", "old"} :
    \E catalog \in {None, Some("cat.example.")} :
    \E pkind \in ZoneKindNames :
    \E pmasters \in {None} \cup {Some(l) : l \in ListsOver({"192.0.2.1", "192.0.2.2"})} :
    \E paccount \in {None, Some("old"), Some("new")} :
    \E pcatalog \in {None, Some("cat.example.")} :
    \E complete \in BOOLEAN :
        /\ exists => ~complete
        /\ server = IF exists
                    THEN [ExistingZone EXCEPT !.kind = kind, !.masters = masters,
                                              !.account = account, !.catalog = catalog]
                    ELSE NoZone
        /\ params = ZoneParams("present",
                       Some([(IF complete THEN NativeProps ELSE NoProps)
                                EXCEPT !.kind = pkind, !.masters = pmasters,
                                       !.account = paccount, !.catalog = pcatalog]),
                       None)
        /\ failAt = 0
        /\ history = <<>>

\* runs of the states that do not reconcile (exists, absent, notify,
\* retrieve): the zone missing or held with any kind, properties and metadata
\* given or not, no remote call failing or one of the first run
InitZoneStates ==
    \E state \in {"exists", "absent", "notify", "retrieve"} :
    \E exists \in BOOLEAN :
    \E kind \in ZoneKindNames :
    \E properties \in {None, Some([NoProps EXCEPT !.kind = "Master"]),
                        Some([NoProps EXCEPT !.kind = "Slave"])} :
    \E metadata \in {None, Some([OmittedMeta EXCEPT !["ixfr"] = Some(TRUE)])} :
    \E fail \in 0..MaxFailAt :
        /\ ~exists => kind = "Native"
        /\ server = IF exists
                    THEN [ExistingZone EXCEPT !.kind = kind, !.meta["IXFR"] = None]
                    ELSE NoZone
        /\ params = ZoneParams(state, properties, metadata)
        /\ failAt = fail
        /\ history = <<>>

\* runs of state present whose first invocation meets a remote error: a
\* creation or an update that has a zone field, a property and two metadata
\* items to write
InitZoneFailing ==
    \E exists \in BOOLEAN :
    \E fail \in 1..MaxFailAt :
        /\ server = IF exists
                    THEN [ExistingZone EXCEPT !.account = "old", !.meta["IXFR"] = None]
                    ELSE NoZone
        /\ params = ZoneParams("present",
                       Some([NativeProps EXCEPT !.kind = "Master", !.account = Some("new")]),
                       Some([OmittedMeta EXCEPT !["ixfr"] = Some(TRUE),
                                                !["notify_dnsupdate"] = Some(TRUE),
                                                !["soa_edit"] = Some("EPOCH")]))
        /\ failAt = fail
        /\ history = <<>>

\* the rrsets a caller may give at creation
CallerRRsets ==
    { [name |-> "www.d1.example.", type |-> t, ttl |-> 3600,
       records |-> << [disabled |-> FALSE, content |-> c] >>] :
         <<t, c>> \in { <<"A", "192.0.2.1">>, <<"TXT", "\"v=spf1 -all\"">>,
                        <<"NS", "ns9.example.">>,
                        <<"SOA", "a. b. 1 2 3 4 5">> } }

\* a nameserver name that is not absolute (no trailing '.')
RelativeName == "ns3.example"

\* creations: the zone missing, state present, properties given or not, of
\* any kind, with soa, nameservers, masters and rrsets given or not
InitZoneCreate ==
    \E given \in BOOLEAN :
    \E kind \in ZoneKindNames :
    \E soa \in {None, Some(SoaGiven)} :
    \E nameservers \in {None} \cup {Some(l) : l \in ListsOver({"ns1.example.", "ns2.example."})}
                         \cup {Some(<<RelativeName>>), Some(<<"ns1.example.", RelativeName>>)} :
    \E masters \in {None, Some(<<"192.0.2.1">>)} :
    \E rrsets \in {None} \cup {Some(l) : l \in ListsOver(CallerRRsets)} :
        /\ masters # None => kind \in {"Slave", "Consumer"}
        /\ ~given => (kind = "Native" /\ soa = None /\ nameservers = None
                         /\ masters = None /\ rrsets = None)
        /\ server = NoZone
        /\ params = ZoneParams("present",
                       IF given
                       THEN Some([NoProps EXCEPT !.kind = kind, !.soa = soa,
                                                 !.nameservers = nameservers,
                                                 !.masters = masters, !.rrsets = rrsets])
                       ELSE None,
                       None)
        /\ failAt = 0
        /\ history = <<>>

InitZone ==
    InitZoneMeta \/ InitZoneProps \/ InitZoneStates \/ InitZoneFailing \/ InitZoneCreate

\* what one invocation leaves behind: the server before and after, and the
\* module's exit (changed, failed, msg, zone) with the calls it issued
RunRecord(before, out) ==
    [before |-> before, after |-> out.srv, changed |-> out.changed, failed |-> out.failed,
     msg |-> out.msg, calls |-> out.calls, zone |-> out.zone, rrsets |-> out.rrsets,
     failAt |-> out.failAt, ids |-> out.ids]

\* one invocation of the zone module
RunZone ==
    /\ params.module = "zone"
    /\ Len(history) < MaxRuns
    /\ LET out == zone_main(server, params, failAt)
       IN /\ server' = out.srv
          /\ history' = Append(history, RunRecord(server, out))
    /\ failAt' = 0
    /\ UNCHANGED params

NextZone == RunZone

\* -------------------------------- the standalone module pdns_auth_zone.py

\* 'value or m.default()' of Metadata.setters / updaters and of
\* ZoneMetadata.setters / updaters in pdns_auth_zone.py: every falsy value,
\* an explicit false among them, gives way to the default
pdns_auth_zone_or_default(type, value) ==
    LET falsy == CASE type \in {"Binary", "Presence", "Ternary"} -> Some(FALSE)
                   [] type = "List" -> Some(<<>>)
                   [] type = "String" -> Some("")
    IN IF value = None \/ value = falsy THEN Default(type) ELSE value

\* the 'metadata' parameter as the updaters of pdns_auth_zone.py take it
pdns_auth_zone_new_user_meta(user_meta) ==
    [n \in DOMAIN user_meta |->
        LET m == IF n \in MetaNames THEN by_meta(MetaRegistry, n) ELSE by_meta(ZoneRegistry, n)
        IN pdns_auth_zone_or_default(m.type, user_meta[n])]

\* pdns_auth_zone.py main(), state=present without properties on a zone the
\* lookup finds: the update branch, whose value classes and calls are those
\* of zone.py, with the desired values taken through 'or default'
pdns_auth_zone_main(srv, p, fail) ==
    LET ctx0 == [srv |-> srv, calls |-> <<>>, changed |-> FALSE, failed |-> FALSE,
                 msg |-> "", zone |-> Some([name |-> p.name, exists |-> FALSE]),
                 rrsets |-> None, failAt |-> fail, zone_id |-> None, ids |-> <<>>]
        c1 == Do(ctx0, Call("listZones", "", <<>>))
        c2 == read_zone_result(set_zone_id(c1, p.name))
        taken == IF p.metadata = None THEN p
                 ELSE [p EXCEPT !.metadata = Some(pdns_auth_zone_new_user_meta(p.metadata[1]))]
    IN IF c1.failed THEN c1
       ELSE IF c2.failed THEN c2
       ELSE zone_update(c2, taken)

\* runs of the standalone module about one metadata item (any of the
\* registry) and a second one (NOTIFY-DNSUPDATE) on a zone the server holds
InitStandalone ==
    \E given \in BOOLEAN :
    \E m \in Range(MetaRegistry) \cup Range(ZoneRegistry) :
    \E r \in (IF m.meta \in ZoneMetaNames THEN RemoteField(m) ELSE RemoteMeta(m)) :
    \E d \in (IF m.meta \in MetaArgs THEN Desired(m) ELSE {None}) :
    \E r2 \in {None, Some(<<"1">>)} :
    \E d2 \in {None, Some(TRUE), Some(FALSE)} :
        LET m2 == by_meta(MetaRegistry, "notify_dnsupdate")
            held == WithRemote(WithRemote(ExistingZone, m2, r2), m, r)
            wanted == WithDesired(WithDesired(OmittedMeta, m2, d2), m, d)
        IN /\ server = held
           /\ params = [ZoneParams("present", None, IF given THEN Some(wanted) ELSE None)
                           EXCEPT !.module = "pdns_auth_zone"]
           /\ failAt = 0
           /\ history = <<>>

\* one invocation of the standalone module
RunStandalone ==
    /\ params.module = "pdns_auth_zone"
    /\ Len(history) < MaxRuns
    /\ LET out == pdns_auth_zone_main(server, params, failAt)
       IN /\ server' = out.srv
          /\ history' = Append(history, RunRecord(server, out))
    /\ failAt' = 0
    /\ UNCHANGED params

SpecStandalone == InitStandalone /\ [][RunStandalone]_vars

SpecZone == InitZone /\ [][NextZone]_vars

\* ------------------------------------------------------ rrset.py: main()

\* str.lower() on the names the runs use
Lower(name) == IF name = "WWW.d1.example." THEN "www.d1.example." ELSE name

\* the double quote; a value of type 'raw' is the sequence of its characters
Quote == "\""

\* module_args[record_type]["options"] without 'disabled', in the order
\* written: the name and type of each sub-field
record_spec(record_type) ==
    CASE record_type \in {"A", "AAAA"} -> << [name |-> "address", type |-> "str"] >>
      [] record_type = "TXT" -> << [name |-> "strings", type |-> "raw"] >>
      [] record_type = "CAA" -> << [name |-> "flags", type |-> "int"],
                                  [name |-> "tag", type |-> "str"],
                                  [name |-> "value", type |-> "raw"] >>

\* str.removeprefix for a prefix of one character
removeprefix(value, prefix) ==
    IF value # <<>> /\ Head(value) = prefix THEN Tail(value) ELSE value

\* str.removesuffix for a suffix of one character
removesuffix(value, suffix) ==
    IF value # <<>> /\ value[Len(value)] = suffix
    THEN SubSeq(value, 1, Len(value) - 1) ELSE value

\* the normalisation that wraps the value as given
safe_string_record_wraps(record_type, record) ==
    LET spec == record_spec(record_type)
        raw == {spec[i].name : i \in {k \in DOMAIN spec : spec[k].type = "raw"}}
    IN [field \in DOMAIN record |->
           IF field \in raw
           THEN << Quote >> \o record[field] \o << Quote >>
           ELSE record[field]]

\* safe_string_record: every sub-field of type 'raw' loses one leading and one
\* trailing double quote, if it has them, and is put between double quotes
safe_string_record(record_type, record) ==
    LET spec == record_spec(record_type)
        raw == {spec[i].name : i \in {k \in DOMAIN spec : spec[k].type = "raw"}}
    IN [field \in DOMAIN record |->
           IF field \in raw
           THEN << Quote >> \o removesuffix(removeprefix(record[field], Quote), Quote)
                           \o << Quote >>
           ELSE record[field]]

RECURSIVE str_raw(_)
\* the string a sequence of characters stands for
str_raw(value) == IF value = <<>> THEN "" ELSE Head(value) \o str_raw(Tail(value))

\* str(value) for a sub-field of the given type
str(type, value) ==
    CASE type = "raw" -> str_raw(value)
      [] type = "int" -> ToString(value)
      [] OTHER -> value

RECURSIVE join(_)
\* " ".join(strings)
join(strings) ==
    IF Len(strings) = 1 THEN strings[1]
    ELSE strings[1] \o " " \o join(Tail(strings))

\* the content of a record given through a typed option: the fields left
\* after 'disabled' is popped, joined with spaces
typed_content(record_type, record) ==
    LET spec == record_spec(record_type)
        safe == safe_string_record(record_type, record)
    IN join([i \in DOMAIN spec |-> str(spec[i].type, safe[spec[i].name])])

\* rrsets_struct with the name as the caller wrote it
rrsets_struct_name_as_given(p) ==
    LET changetype == IF p.state = "present" THEN "REPLACE" ELSE "DELETE"
    IN IF p.typed # <<>>
       THEN [i \in DOMAIN p.typed |->
                [name |-> p.name, type |-> Some(p.typed[i].type), ttl |-> p.ttl,
                 keep |-> p.keep, changetype |-> changetype,
                 records |-> Some([j \in DOMAIN p.typed[i].records |->
                                     [disabled |-> p.typed[i].records[j].disabled,
                                      content |-> typed_content(p.typed[i].type, p.typed[i].records[j])]])]]
       ELSE << [name |-> p.name, type |-> p.type, ttl |-> p.ttl, keep |-> p.keep,
                changetype |-> changetype, records |-> p.records] >>

\* rrsets_struct: one RRset per typed option given, or the one of 'type' and
\* 'records'
rrsets_struct(p) ==
    LET changetype == IF p.state = "present" THEN "REPLACE" ELSE "DELETE"
    IN IF p.typed # <<>>
       THEN [i \in DOMAIN p.typed |->
                [name |-> Lower(p.name), type |-> Some(p.typed[i].type), ttl |-> p.ttl,
                 keep |-> p.keep, changetype |-> changetype,
                 records |-> Some([j \in DOMAIN p.typed[i].records |->
                                     [disabled |-> p.typed[i].records[j].disabled,
                                      content |-> typed_content(p.typed[i].type, p.typed[i].records[j])]])]]
       ELSE << [name |-> Lower(p.name), type |-> p.type, ttl |-> p.ttl, keep |-> p.keep,
                changetype |-> changetype, records |-> p.records] >>

\* next(r for r in zone_rrsets if name and type match, None)
existing_rrset(zone_rrsets, rrset) ==
    LET hits == SelectSeq(zone_rrsets,
                          LAMBDA r : r.name = rrset.name /\ Some(r.type) = rrset.type)
    IN IF hits = <<>> THEN None ELSE Some(Head(hits))

\* an entry of zone_struct["rrsets"]
Entry(rrset, changetype, ttl, records) ==
    [name |-> rrset.name, type |-> rrset.type[1], changetype |-> changetype,
     ttl |-> ttl, records |-> records]

\* record in records
InList(record, records) == \E i \in DOMAIN records : records[i] = record

\* the union that appends every given record, present already or not
new_records_list_appends_all(changetype, existing_records, records) ==
    IF changetype = "REPLACE"
    THEN existing_records \o records
    ELSE SelectSeq(existing_records, LAMBDA r : ~InList(r, records))

\* the difference that matches records by content alone
new_records_list_by_content(changetype, existing_records, records) ==
    IF changetype = "REPLACE"
    THEN existing_records \o SelectSeq(records, LAMBDA r : ~InList(r, existing_records))
    ELSE SelectSeq(existing_records,
                   LAMBDA r : \A i \in DOMAIN records : records[i].content # r.content)

\* keep=true with an existing RRset whose records are not the given ones:
\* the records to store
new_records_list(changetype, existing_records, records) ==
    IF changetype = "REPLACE"
    THEN existing_records \o SelectSeq(records, LAMBDA r : ~InList(r, existing_records))
    ELSE SelectSeq(existing_records, LAMBDA r : ~InList(r, records))

\* the loop body passing over a DELETE of an RRset the zone does not hold
rrset_step_skips_missing(zone_rrsets, rrset) ==
    LET existing == existing_rrset(zone_rrsets, rrset)
        verbatim == << Entry(rrset, rrset.changetype, Some(rrset.ttl), rrset.records) >>
    IN IF existing = None \/ ~rrset.keep
       THEN IF rrset.changetype = "REPLACE"
            THEN IF rrset.type # None
                 THEN [ok |-> TRUE, entries |-> verbatim]
                 ELSE [ok |-> FALSE, msg |-> "No valid record found for RRset creation."]
            ELSE IF existing # None
                 THEN [ok |-> TRUE, entries |-> verbatim]
                 ELSE [ok |-> TRUE, entries |-> <<>>]
       ELSE IF rrset.records = Some(existing[1].records)
       THEN IF rrset.changetype = "DELETE"
            THEN [ok |-> TRUE, entries |-> << Entry(rrset, "DELETE", None, None) >>]
            ELSE [ok |-> TRUE, entries |-> <<>>]
       ELSE IF rrset.records = None
       THEN [ok |-> FALSE, msg |-> "TypeError"]
       ELSE LET merged == new_records_list(rrset.changetype, existing[1].records, rrset.records[1])
            IN IF merged # existing[1].records
               THEN [ok |-> TRUE, entries |-> << Entry(rrset, "REPLACE", Some(rrset.ttl), Some(merged)) >>]
               ELSE [ok |-> TRUE, entries |-> <<>>]

\* the loop body without its branch for given records equal to the existing
\* ones
rrset_step_no_exact_match(zone_rrsets, rrset) ==
    LET existing == existing_rrset(zone_rrsets, rrset)
        verbatim == << Entry(rrset, rrset.changetype, Some(rrset.ttl), rrset.records) >>
    IN IF existing = None \/ ~rrset.keep
       THEN IF rrset.changetype = "REPLACE"
            THEN IF rrset.type # None
                 THEN [ok |-> TRUE, entries |-> verbatim]
                 ELSE [ok |-> FALSE, msg |-> "No valid record found for RRset creation."]
            ELSE IF existing # None
                 THEN [ok |-> TRUE, entries |-> verbatim]
                 ELSE [ok |-> FALSE, msg |-> "No matching RRset found"]
       ELSE IF rrset.records = None
       THEN [ok |-> FALSE, msg |-> "TypeError"]
       ELSE LET merged == new_records_list(rrset.changetype, existing[1].records, rrset.records[1])
            IN IF merged # existing[1].records
               THEN [ok |-> TRUE, entries |-> << Entry(rrset, "REPLACE", Some(rrset.ttl), Some(merged)) >>]
               ELSE [ok |-> TRUE, entries |-> <<>>]

\* one pass of the loop over rrsets_struct: the entries appended for rrset,
\* or the failure that ends the invocation
rrset_step(zone_rrsets, rrset) ==
    LET existing == existing_rrset(zone_rrsets, rrset)
        verbatim == << Entry(rrset, rrset.changetype, Some(rrset.ttl), rrset.records) >>
    IN IF existing = None \/ ~rrset.keep
       THEN IF rrset.changetype = "REPLACE"
            THEN IF rrset.type # None
                 THEN [ok |-> TRUE, entries |-> verbatim]
                 ELSE [ok |-> FALSE, msg |-> "No valid record found for RRset creation."]
            ELSE IF existing # None
                 THEN [ok |-> TRUE, entries |-> verbatim]
                 ELSE [ok |-> FALSE, msg |-> "No matching RRset found"]
       ELSE IF rrset.records = Some(existing[1].records)
       THEN IF rrset.changetype = "DELETE"
            THEN [ok |-> TRUE, entries |-> << Entry(rrset, "DELETE", None, None) >>]
            ELSE [ok |-> TRUE, entries |-> <<>>]
       ELSE IF rrset.records = None
       THEN [ok |-> FALSE, msg |-> "TypeError"]
       ELSE LET merged == new_records_list(rrset.changetype, existing[1].records, rrset.records[1])
            IN IF merged # existing[1].records
               THEN [ok |-> TRUE, entries |-> << Entry(rrset, "REPLACE", Some(rrset.ttl), Some(merged)) >>]
               ELSE [ok |-> TRUE, entries |-> <<>>]

RECURSIVE rrset_loop(_, _, _)
\* for rrset in rrsets_struct: ...; the entries of zone_struct["rrsets"]
rrset_loop(zone_rrsets, rrsets, entries) ==
    IF rrsets = <<>> THEN [ok |-> TRUE, entries |-> entries]
    ELSE LET step == rrset_step(zone_rrsets, Head(rrsets))
         IN IF ~step.ok THEN step
            ELSE rrset_loop(zone_rrsets, Tail(rrsets), entries \o step.entries)

\* get_result_rrsets(rrsets, rrset_name, rrset_type)["rrsets"]
get_result_rrsets(rrsets, rrset_name, rrset_type) ==
    IF rrset_name # None /\ rrset_type # None
    THEN LET hits == SelectSeq(rrsets, LAMBDA r : r.name = rrset_name[1] /\ r.type = rrset_type[1])
         IN IF hits = <<>> THEN <<>> ELSE << hits[Len(hits)] >>
    ELSE IF rrset_name # None
    THEN SelectSeq(rrsets, LAMBDA r : r.name = rrset_name[1])
    ELSE IF rrset_type # None
    THEN SelectSeq(rrsets, LAMBDA r : r.type = rrset_type[1])
    ELSE rrsets

\* the wrapper call rrset.py makes as listZone(rrsets=True). The listZone of
\* module_utils/api_wrapper.py takes no keyword and asks for rrsets=False; the
\* call is modelled as the "get zone detail" operation of the remote API,
\* answering with the zone's RRsets
listZone_rrsets == Call("listZone", "rrsets", <<>>)

\* the wrapper call rrset.py makes as patchZone(zone_struct=...). No wrapper
\* class defines patchZone; the call is modelled as the "patch zone"
\* operation of the remote API
patchZone(zone_struct) == Call("patchZone", "", zone_struct)

\* get_rrsets(api_client): the RRsets of the zone as the server holds them
get_rrsets(srv) == srv.rrsets

\* rrset.py main(): one invocation against server srv with parameters p,
\* the remote call numbered fail (0: none) failing
rrset_main(srv, p, fail) ==
    LET ctx0 == [srv |-> srv, calls |-> <<>>, changed |-> FALSE, failed |-> FALSE,
                 msg |-> "", zone |-> None, rrsets |-> None, failAt |-> fail,
                 zone_id |-> None, ids |-> <<>>]
        c1 == Do(ctx0, Call("listZones", "", <<>>))
        c2 == Do(set_zone_id(c1, ZoneName), listZone_rrsets)
        zone_rrsets == get_rrsets(srv)
        plan == rrset_loop(zone_rrsets, rrsets_struct(p), <<>>)
    IN IF c1.failed THEN c1
       ELSE IF ~srv.exists THEN Fail(c1, "Failed to find zone")
       ELSE IF c2.failed THEN c2
       ELSE IF p.state = "exists"
       THEN [c2 EXCEPT !.rrsets = Some(get_result_rrsets(zone_rrsets, Some(p.name), p.type))]
       ELSE IF ~plan.ok THEN Fail(c2, plan.msg)
       ELSE IF p.check_mode THEN c2
       ELSE IF plan.entries # <<>>
       THEN LET c3 == Do(c2, patchZone(plan.entries))
                c4 == Do([c3 EXCEPT !.changed = TRUE], listZone_rrsets)
            IN IF c3.failed THEN c3
               ELSE IF c4.failed THEN c4
               ELSE [c4 EXCEPT !.rrsets = Some(get_rrsets(c4.srv))]
       ELSE c2

\* ------------------------------------------------ rrset module: the runs

RecordName == "www.d1.example."

\* the records the runs draw from
Records ==
    { [content |-> "192.0.2.1", disabled |-> FALSE],
      [content |-> "192.0.2.2", disabled |-> FALSE],
      [content |-> "192.0.2.1", disabled |-> TRUE] }

RecordLists == UNION {[1..k -> Records] : k \in 0..MaxRecords}

\* an RRset of another name, which every run's zone holds
OtherRRset ==
    [name |-> "mail.d1.example.", type |-> "A", ttl |-> 300,
     records |-> << [content |-> "192.0.2.9", disabled |-> FALSE] >>]

\* the zone holding, besides OtherRRset, an RRset of RecordName per type that
\* held gives records for
ZoneWith(held) ==
    [ExistingZone EXCEPT !.rrsets =
        << OtherRRset >> \o
        [i \in DOMAIN held |->
            [name |-> RecordName, type |-> held[i].type, ttl |-> 300,
             records |-> held[i].records]]]

RRsetParams(state, name, type, records, typed, keep) ==
    [module |-> "rrset", state |-> state, check_mode |-> FALSE, name |-> name,
     zone_name |-> ZoneName, type |-> type, records |-> records, typed |-> typed,
     keep |-> keep, ttl |-> 3600]

\* runs with 'type' and 'records': any record lists on the server and in the
\* parameters, the name given in either case, the zone holding an RRset of
\* the name and another type or not
InitRRsetClassic ==
    \E held \in {None} \cup {Some(l) : l \in RecordLists \ {<<>>}} :
    \E records \in {None} \cup {Some(l) : l \in RecordLists} :
    \E state \in {"present", "absent"} :
    \E keep \in BOOLEAN :
    \E name \in {RecordName, "WWW.d1.example."} :
    \E other \in BOOLEAN :
        /\ server = ZoneWith((IF held = None THEN <<>>
                              ELSE << [type |-> "A", records |-> held[1]] >>)
                             \o (IF other
                                 THEN << [type |-> "AAAA",
                                          records |-> << [content |-> "2001:db8::1",
                                                          disabled |-> FALSE] >>] >>
                                 ELSE <<>>))
        /\ params = RRsetParams(state, name, Some("A"), records, <<>>, keep)
        /\ failAt = 0
        /\ history = <<>>

\* runs with the typed options A and AAAA, in either order, one record each,
\* no remote call failing or one of the first run
InitRRsetTyped ==
    \E heldA \in {None, Some("192.0.2.1"), Some("192.0.2.2")} :
    \E heldAAAA \in {None, Some("2001:db8::1")} :
    \E wantA \in {"192.0.2.1", "192.0.2.2"} :
    \E wantAAAA \in {"2001:db8::1", "2001:db8::2"} :
    \E first \in {"A", "AAAA"} :
    \E state \in {"present", "absent"} :
    \E keep \in BOOLEAN :
    \E fail \in 0..MaxFailAt :
        LET rec(c) == << [content |-> c, disabled |-> FALSE] >>
            a == [type |-> "A", records |-> << [address |-> wantA, disabled |-> FALSE] >>]
            aaaa == [type |-> "AAAA", records |-> << [address |-> wantAAAA, disabled |-> FALSE] >>]
        IN /\ server = ZoneWith(
                  (IF heldA = None THEN <<>> ELSE << [type |-> "A", records |-> rec(heldA[1])] >>)
                  \o (IF heldAAAA = None THEN <<>>
                      ELSE << [type |-> "AAAA", records |-> rec(heldAAAA[1])] >>))
           /\ params = RRsetParams(state, RecordName, None, None,
                                   IF first = "A" THEN << a, aaaa >> ELSE << aaaa, a >>, keep)
           /\ failAt = fail
           /\ history = <<>>

\* the values of a sub-field of type 'raw' the runs draw from
RawValues == UNION {[1..k -> {Quote, "a"}] : k \in 0..MaxChars}

\* runs with the typed option TXT or CAA, one record: any value for the
\* sub-field of type 'raw', the zone holding an RRset of the type or not
InitRRsetRaw ==
    \E value \in RawValues :
    \E first \in {"TXT", "CAA"} :
    \E flags \in {0, 1} :
    \E held \in BOOLEAN :
    \E state \in {"present", "absent"} :
    \E keep \in BOOLEAN :
        LET record == IF first = "TXT"
                      THEN [strings |-> value, disabled |-> FALSE]
                      ELSE [flags |-> flags, tag |-> "issue", value |-> value,
                            disabled |-> FALSE]
            content == IF first = "TXT" THEN "\"a\"" ELSE "0 issue \"a\""
        IN /\ first = "TXT" => flags = 0
           /\ server = ZoneWith(IF held
                                THEN << [type |-> first,
                                         records |-> << [content |-> content,
                                                         disabled |-> FALSE] >>] >>
                                ELSE <<>>)
           /\ params = RRsetParams(state, RecordName, None, None,
                                   << [type |-> first, records |-> << record >>] >>, keep)
           /\ failAt = 0
           /\ history = <<>>

\* runs with state 'exists': the type given or not, the zone there or not,
\* holding an RRset of the name or not
InitRRsetExists ==
    \E held \in {None} \cup {Some(l) : l \in RecordLists \ {<<>>}} :
    \E zone \in BOOLEAN :
    \E type \in {None, Some("A"), Some("AAAA")} :
    \E keep \in BOOLEAN :
    \E name \in {RecordName, "WWW.d1.example."} :
        /\ zone \/ held = None
        /\ server = IF zone
                    THEN ZoneWith(IF held = None THEN <<>>
                                  ELSE << [type |-> "A", records |-> held[1]] >>)
                    ELSE NoZone
        /\ params = RRsetParams("exists", name, type, None, <<>>, keep)
        /\ failAt = 0
        /\ history = <<>>

InitRRset == InitRRsetClassic \/ InitRRsetTyped \/ InitRRsetRaw \/ InitRRsetExists

\* one invocation of the rrset module
RunRRset ==
    /\ params.module = "rrset"
    /\ Len(history) < MaxRuns
    /\ LET out == rrset_main(server, params, failAt)
       IN /\ server' = out.srv
          /\ history' = Append(history, RunRecord(server, out))
    /\ failAt' = 0
    /\ UNCHANGED params

NextRRset == RunRRset

SpecRRset == InitRRset /\ [][NextRRset]_vars

\* ------------------------------------------------------------ tsigkey module

\* result["key"] once the key's information is known
key_result(name, key_info) ==
    Some([name |-> name, exists |-> TRUE, algorithm |-> Some(key_info.algorithm),
          key |-> Some(key_info.key)])

\* the key of the given id as the server holds it
tsigkey_info(srv, key_id) ==
    LET hits == SelectSeq(srv.tsigkeys, LAMBDA k : k.id = key_id) IN hits[1]

\* state 'absent' on a key that was found, deleting without the id found
tsigkey_delete_ignores_id(ctx, key_id) ==
    LET c1 == DoKey(ctx, Call("deleteTSIGKey", "", <<>>))
    IN IF c1.failed THEN c1 ELSE [c1 EXCEPT !.changed = TRUE]

\* tsigkey.py main(), state 'absent' on a key that was found
tsigkey_delete(ctx, key_id) ==
    LET c1 == DoKey(ctx, Call("deleteTSIGKey", key_id, <<>>))
    IN IF c1.failed THEN c1 ELSE [c1 EXCEPT !.changed = TRUE]

\* tsigkey.py main(), state 'present' and no key of the name: the key is created
tsigkey_create(ctx, p) ==
    LET key_struct == [name |-> p.name, algorithm |-> p.algorithm,
                       key |-> IF p.key # None /\ p.key[1] # "" THEN p.key ELSE None]
        c1 == DoKey(ctx, Call("createTSIGKey", "", key_struct))
    IN IF c1.failed THEN c1
       ELSE [c1 EXCEPT !.changed = TRUE,
                       !.key = key_result(p.name, StoredTSIGKey(key_struct))]

\* an update that sends the algorithm whether it differs or not
tsigkey_update_sends_algorithm(ctx, p, key_id, key_info) ==
    LET key_struct ==
            [algorithm |-> IF p.algorithm # "" THEN Some(p.algorithm) ELSE None,
             key |-> IF p.key # None /\ p.key[1] # "" /\ p.key[1] # key_info.key
                     THEN p.key ELSE None]
        c1 == DoKey(ctx, Call("putTSIGKey", key_id, key_struct))
    IN IF key_struct.algorithm = None /\ key_struct.key = None THEN ctx
       ELSE IF c1.failed THEN c1
       ELSE [c1 EXCEPT !.changed = TRUE,
                       !.key = key_result(p.name, tsigkey_info(c1.srv, key_id))]

\* tsigkey.py main(), state 'present' and the key found: the attributes that
\* are given and differ are sent
tsigkey_update(ctx, p, key_id, key_info) ==
    LET key_struct ==
            [algorithm |-> IF p.algorithm # "" /\ p.algorithm # key_info.algorithm
                           THEN Some(p.algorithm) ELSE None,
             key |-> IF p.key # None /\ p.key[1] # "" /\ p.key[1] # key_info.key
                     THEN p.key ELSE None]
        c1 == DoKey(ctx, Call("putTSIGKey", key_id, key_struct))
    IN IF key_struct.algorithm = None /\ key_struct.key = None THEN ctx
       ELSE IF c1.failed THEN c1
       ELSE [c1 EXCEPT !.changed = TRUE,
                       !.key = key_result(p.name, tsigkey_info(c1.srv, key_id))]

\* tsigkey.py main(): one invocation against server srv with parameters p,
\* the remote call numbered fail (0: none) failing
tsigkey_main(srv, p, fail) ==
    LET ctx0 == [srv |-> srv, calls |-> <<>>, changed |-> FALSE, failed |-> FALSE,
                 msg |-> "", zone |-> None, rrsets |-> None, failAt |-> fail,
                 zone_id |-> None, ids |-> <<>>, key |-> None]
        c0 == [ctx0 EXCEPT !.key = Some([name |-> p.name, exists |-> FALSE,
                                         algorithm |-> None, key |-> None])]
        c1 == DoKey(c0, Call("listTSIGKeys", "", <<>>))
        partial_key_info == SelectSeq(srv.tsigkeys, LAMBDA k : k.name = p.name)
        key_id == partial_key_info[1].id
        c2 == DoKey(c1, Call("getTSIGKey", key_id, <<>>))
        c3 == [c2 EXCEPT !.key = key_result(p.name, tsigkey_info(srv, key_id))]
    IN IF p.check_mode THEN ctx0
       ELSE IF c1.failed THEN c1
       ELSE IF partial_key_info = <<>>
       THEN IF p.state \in {"exists", "absent"} THEN c1 ELSE tsigkey_create(c1, p)
       ELSE IF c2.failed THEN c2
       ELSE IF p.state = "exists" THEN c3
       ELSE IF p.state = "absent" THEN tsigkey_delete(c3, key_id)
       ELSE tsigkey_update(c3, p, key_id, tsigkey_info(srv, key_id))

\* ----------------------------------------------- tsigkey module: the runs

KeyName == "key1"

TSIGAlgorithms == {"hmac-md5", "hmac-sha256"}

\* a key of another name, which the server may hold
OtherTSIGKey == [id |-> "key9", name |-> "key9", algorithm |-> "hmac-sha512", key |-> "s9"]

\* any state; the key held or not, with either algorithm; a key of another
\* name held or not; the key value omitted, empty, as held or different; no
\* remote call failing or one of the first run
InitTSIGKey ==
    \E held \in {None} \cup {Some(a) : a \in TSIGAlgorithms} :
    \E other \in BOOLEAN :
    \E state \in {"present", "absent", "exists"} :
    \E algorithm \in TSIGAlgorithms :
    \E key \in {None, Some(""), Some("s1"), Some("s2")} :
    \E check_mode \in BOOLEAN :
    \E fail \in 0..MaxFailAt :
        /\ server = [NoZone EXCEPT !.tsigkeys =
                        (IF other THEN << OtherTSIGKey >> ELSE <<>>)
                        \o (IF held = None THEN <<>>
                            ELSE << [id |-> KeyName, name |-> KeyName,
                                     algorithm |-> held[1], key |-> "s1"] >>)]
        /\ params = [module |-> "tsigkey", state |-> state, check_mode |-> check_mode,
                     name |-> KeyName, algorithm |-> algorithm, key |-> key]
        /\ failAt = fail
        /\ history = <<>>

\* one invocation of the tsigkey module
RunTSIGKey ==
    /\ params.module = "tsigkey"
    /\ Len(history) < MaxRuns
    /\ LET out == tsigkey_main(server, params, failAt)
       IN /\ server' = out.srv
          /\ history' = Append(history, RunRecord(server, out) @@ [key |-> out.key])
    /\ failAt' = 0
    /\ UNCHANGED params

\* ---------------------------------------------------------- cryptokey module

\* "rsa" in algorithm.lower(), over the algorithm names the runs use
\* a test that forgets .lower()
has_rsa_case_sensitive(algorithm) == algorithm \in {"rsasha256"}

has_rsa(algorithm) == algorithm \in {"rsasha256", "RSASHA512"}

\* cryptokeys_ids = [str(key["id"]) for key in existing_zone_keys]
cryptokeys_ids(existing_zone_keys) ==
    {Str(existing_zone_keys[i].id) : i \in DOMAIN existing_zone_keys}

\* the key of the given id (a string) as the server holds it
cryptokey_info(srv, cryptokey_id) ==
    LET hits == SelectSeq(srv.cryptokeys, LAMBDA k : Str(k.id) = cryptokey_id) IN hits[1]

\* a call the server answers with an error, which the API error handler
\* turns into fail_json
Rejected(ctx, call) == api_exception_handler(ctx, call)

\* cryptokey.py main(), state 'exists'
cryptokey_exists(ctx, p) ==
    LET c0 == [ctx EXCEPT !.exists = Some(FALSE)]
        get == Call("getCryptokey", p.cryptokey_id[1], <<>>)
        c1 == DoKey(c0, get)
    IN IF p.cryptokey_id # None
       THEN IF p.cryptokey_id[1] \notin cryptokeys_ids(ctx.srv.cryptokeys) THEN Rejected(c0, get)
            ELSE IF c1.failed THEN c1
            ELSE [c1 EXCEPT !.cryptokey = Some(cryptokey_info(ctx.srv, p.cryptokey_id[1])),
                            !.exists = Some(TRUE)]
       ELSE [c0 EXCEPT !.cryptokeys = ctx.srv.cryptokeys,
                       !.exists = Some(ctx.srv.cryptokeys # <<>>)]

\* cryptokey.py main(), state 'present' without cryptokey_id: the payload of
\* createCryptokey, or the message of the failure
cryptokey_struct(cryptokey_def) ==
    LET common == [keytype |-> OrElse(cryptokey_def.keytype, ""),
                   active |-> cryptokey_def.active,
                   published |-> cryptokey_def.published,
                   algorithm |-> None, bits |-> None, dnskey |-> None, privatekey |-> None]
    IN IF cryptokey_def.keytype = None
       THEN [ok |-> FALSE, msg |-> "Missing keytype option in cryptokey definition"]
       ELSE IF cryptokey_def.algorithm # None
       THEN [ok |-> TRUE,
             cryptokey |-> [common EXCEPT !.algorithm = cryptokey_def.algorithm,
                                          !.bits = IF has_rsa(cryptokey_def.algorithm[1])
                                                   THEN Some(cryptokey_def.bits) ELSE None]]
       ELSE IF cryptokey_def.privatekey # None /\ cryptokey_def.dnskey # None
       THEN [ok |-> TRUE,
             cryptokey |-> [common EXCEPT !.dnskey = cryptokey_def.dnskey,
                                          !.privatekey = cryptokey_def.privatekey]]
       ELSE [ok |-> FALSE, msg |-> "Wrong options provided for cryptokey creation"]

\* cryptokey.py main(), state 'present'
cryptokey_present(ctx, p) ==
    LET cryptokey_def == p.cryptokey[1]
        made == cryptokey_struct(cryptokey_def)
        c1 == DoKey(ctx, Call("createCryptokey", "", made.cryptokey))
        c2 == DoKey(ctx, Call("modifyCryptokey", p.cryptokey_id[1],
                           [active |-> cryptokey_def.active,
                            published |-> cryptokey_def.published]))
    IN IF p.cryptokey_id = None
       THEN IF ~made.ok THEN Fail(ctx, made.msg)
            ELSE IF c1.failed THEN c1 ELSE [c1 EXCEPT !.changed = TRUE]
       ELSE IF p.cryptokey_id[1] \notin cryptokeys_ids(ctx.srv.cryptokeys)
       THEN Fail(ctx, "Key of id not found for zone")
       ELSE IF c2.failed THEN c2 ELSE [c2 EXCEPT !.changed = TRUE]

\* a delete that takes an unknown id for a key already gone
cryptokey_absent_silent(ctx, p) ==
    LET c1 == DoKey(ctx, Call("deleteCryptokey", p.cryptokey_id[1], <<>>))
    IN IF p.cryptokey_id[1] \notin cryptokeys_ids(ctx.srv.cryptokeys)
       THEN ctx
       ELSE IF c1.failed THEN c1 ELSE [c1 EXCEPT !.changed = TRUE]

\* cryptokey.py main(), state 'absent'
cryptokey_absent(ctx, p) ==
    LET c1 == DoKey(ctx, Call("deleteCryptokey", p.cryptokey_id[1], <<>>))
    IN IF p.cryptokey_id[1] \notin cryptokeys_ids(ctx.srv.cryptokeys)
       THEN Fail(ctx, "Key of id not found for zone")
       ELSE IF c1.failed THEN c1 ELSE [c1 EXCEPT !.changed = TRUE]

\* cryptokey.py main(): one invocation against server srv with parameters p,
\* the remote call numbered fail (0: none) failing. module.check_mode is
\* never read
cryptokey_main_exists_deletes(srv, p, fail) ==
    LET ctx0 == [srv |-> srv, calls |-> <<>>, changed |-> FALSE, failed |-> FALSE,
                 msg |-> "", zone |-> None, rrsets |-> None, failAt |-> fail,
                 zone_id |-> None, ids |-> <<>>,
                 cryptokey |-> None, cryptokeys |-> <<>>, exists |-> None]
        c1 == DoKey(ctx0, Call("listZones", "", <<>>))
        c2 == DoKey(set_zone_id(c1, p.zone_name), Call("listCryptokeys", "", <<>>))
        c3 == IF p.state = "exists" /\ p.cryptokey_id # None THEN cryptokey_absent(c2, p)
              ELSE IF p.state = "exists" THEN cryptokey_exists(c2, p)
              ELSE IF p.state = "present" THEN cryptokey_present(c2, p)
              ELSE cryptokey_absent(c2, p)
        c4 == DoKey(c3, Call("listCryptokeys", "", <<>>))
    IN IF c1.failed THEN c1
       ELSE IF ~srv.exists THEN Fail(c1, "No zone found for name")
       ELSE IF c2.failed THEN c2
       ELSE IF c3.failed \/ ~c3.changed THEN c3
       ELSE IF c4.failed THEN c4
       ELSE [c4 EXCEPT !.cryptokeys = c4.srv.cryptokeys]

cryptokey_main(srv, p, fail) ==
    LET ctx0 == [srv |-> srv, calls |-> <<>>, changed |-> FALSE, failed |-> FALSE,
                 msg |-> "", zone |-> None, rrsets |-> None, failAt |-> fail,
                 zone_id |-> None, ids |-> <<>>,
                 cryptokey |-> None, cryptokeys |-> <<>>, exists |-> None]
        c1 == DoKey(ctx0, Call("listZones", "", <<>>))
        c2 == DoKey(set_zone_id(c1, p.zone_name), Call("listCryptokeys", "", <<>>))
        c3 == IF p.state = "exists" THEN cryptokey_exists(c2, p)
              ELSE IF p.state = "present" THEN cryptokey_present(c2, p)
              ELSE cryptokey_absent(c2, p)
        c4 == DoKey(c3, Call("listCryptokeys", "", <<>>))
    IN IF c1.failed THEN c1
       ELSE IF ~srv.exists THEN Fail(c1, "No zone found for name")
       ELSE IF c2.failed THEN c2
       ELSE IF c3.failed \/ ~c3.changed THEN c3
       ELSE IF c4.failed THEN c4
       ELSE [c4 EXCEPT !.cryptokeys = c4.srv.cryptokeys]

\* --------------------------------------------- cryptokey module: the runs

\* the keys a zone may hold at the start
HeldCryptokeys ==
    { <<>>,
      << [id |-> 1, keytype |-> "ksk", active |-> TRUE, published |-> TRUE] >>,
      << [id |-> 1, keytype |-> "ksk", active |-> TRUE, published |-> TRUE],
         [id |-> 2, keytype |-> "zsk", active |-> FALSE, published |-> TRUE] >> }

\* the cryptokey definitions the runs draw from: keytype given or not, a key
\* to generate (RSA or not), a key to import (whole or half), or neither
CryptokeyDefs ==
    { [keytype |-> kt, active |-> a, published |-> TRUE, algorithm |-> alg,
       bits |-> 4096, dnskey |-> imp[1], privatekey |-> imp[2]] :
         kt \in {None, Some("zsk")}, a \in BOOLEAN,
         alg \in {None, Some("rsasha256"), Some("RSASHA512"), Some("ecdsa256")},
         imp \in { <<None, None>>, <<Some("257 3 13 abc"), None>>,
                   <<Some("257 3 13 abc"), Some("Private-key-format: v1.2")>> } }

\* any state with the options required_if demands of it; the zone missing or
\* holding no, one or two keys; the id omitted, held or unknown; no remote
\* call failing or, for some of the runs, one of the first run
InitCryptokey ==
    \E held \in HeldCryptokeys :
    \E zone \in BOOLEAN :
    \E state \in {"present", "absent", "exists"} :
    \E cryptokey_id \in {None, Some(Str(1)), Some(Str(7))} :
    \E cryptokey \in {None} \cup {Some(d) : d \in CryptokeyDefs} :
    \E check_mode \in BOOLEAN :
    \E fail \in 0..MaxFailAt :
        /\ zone \/ held = <<>>
        /\ fail # 0 => (zone /\ ~check_mode /\ Len(held) = 1
                        /\ (cryptokey # None => cryptokey[1].active))
        /\ state = "present" => cryptokey # None
        /\ state = "absent" => cryptokey_id # None
        /\ state # "present" => cryptokey = None
        /\ server = IF zone THEN [ExistingZone EXCEPT !.cryptokeys = held] ELSE NoZone
        /\ params = [module |-> "cryptokey", state |-> state, check_mode |-> check_mode,
                     zone_name |-> ZoneName, cryptokey_id |-> cryptokey_id,
                     cryptokey |-> cryptokey]
        /\ failAt = fail
        /\ history = <<>>

\* one invocation of the cryptokey module
RunCryptokey ==
    /\ params.module = "cryptokey"
    /\ Len(history) < MaxRuns
    /\ LET out == cryptokey_main(server, params, failAt)
       IN /\ server' = out.srv
          /\ history' = Append(history, RunRecord(server, out)
                                        @@ [cryptokey |-> out.cryptokey,
                                            cryptokeys |-> out.cryptokeys,
                                            exists |-> out.exists])
    /\ failAt' = 0
    /\ UNCHANGED params

\* ---------------------------------------------------------- all modules

Init == InitZone \/ InitRRset \/ InitTSIGKey \/ InitCryptokey

Next == RunZone \/ RunRRset \/ RunTSIGKey \/ RunCryptokey

Spec == Init /\ [][Next]_vars

\* ------------------------------------------------- reading the history

Runs == {history[i] : i \in DOMAIN history}

\* the calls of a run that change the server
Mutating(calls) == SelectSeq(calls, LAMBDA c : c.op \in MutatingOps)

\* the metadata calls of a run for one kind
CallsFor(calls, api_kind) ==
    SelectSeq(calls, LAMBDA c : c.op \in {"modifyMetadata", "deleteMetadata"} /\ c.kind = api_kind)

\* the createZone and putZone calls of a run
StructCalls(calls) == SelectSeq(calls, LAMBDA c : c.op \in {"createZone", "putZone"})

\* the zone module, state=present, found the zone and ended without failure
IsUpdateRun(h) ==
    /\ params.module = "zone"
    /\ params.state = "present"
    /\ h.before.exists
    /\ ~h.failed

\* the value the run read for item m, and the value it reconciled m to
OldValue(h, m) == build_zone_result(h.before).metadata[m.meta]

NewValue(m) == value_or_default(m.type, MetaGet(params.metadata[1], m.meta))

MutableMeta == {m \in Range(MetaRegistry) : ~m.immutable}

MutableZoneMeta == {m \in Range(ZoneRegistry) : ~m.immutable}

\* the run wrote nothing for the metadata-endpoint item m
Untouched(h, m) == CallsFor(h.calls, m.api_kind) = <<>>

\* the run wrote nothing for the zone-field item m
FieldUntouched(h, m) ==
    \A i \in DOMAIN h.calls :
        h.calls[i].op = "putZone" => h.calls[i].payload[m.api_kind] = None

\* the run sent exactly one putZone, carrying value for the zone field of m
FieldWritten(h, m, value) ==
    /\ Len(StructCalls(h.calls)) = 1
    /\ StructCalls(h.calls)[1].op = "putZone"
    /\ StructCalls(h.calls)[1].payload[m.api_kind] = value

\* ------------------------------------------------------------------ C1

\* C1: zone idempotence. When the zone module runs twice in succession with
\* state=present and the same parameters, and the first run ends without
\* failure, the second run ends without failure, reports changed=false,
\* issues no mutating call, and leaves the server as the first run left it.
C1_ZoneIdempotent ==
    (/\ params.module = "zone"
     /\ params.state = "present"
     /\ Len(history) >= 2
     /\ ~history[1].failed)
    => /\ ~history[2].failed
       /\ history[2].changed = FALSE
       /\ Mutating(history[2].calls) = <<>>
       /\ history[2].after = history[1].after

\* a first run that changed both a zone field and a metadata item, then a
\* second run
C1_Witness ==
    /\ params.module = "zone"
    /\ Len(history) = 2
    /\ history[1].changed
    /\ \E i, j \in DOMAIN history[1].calls :
          /\ history[1].calls[i].op \in {"putZone", "createZone"}
          /\ history[1].calls[j].op \in {"modifyMetadata", "deleteMetadata"}
    /\ ~history[2].changed

\* ------------------------------------------------------------------ C2

ListMeta == {m \in MutableMeta : m.type = "List"}

ListZoneMeta == {m \in MutableZoneMeta : m.type = "List"}

C3_TernaryBooleanDelete ==
    \A h \in Runs :
        (IsUpdateRun(h) /\ params.metadata # None) =>
            \A m \in MutableMeta :
                /\ (/\ m.type = "Ternary"
                    /\ OldValue(h, m) = Some(TRUE)
                    /\ params.metadata[1][m.meta] = None)
                   => CallsFor(h.calls, m.api_kind) = << Delete(m.api_kind) >>
                /\ (/\ m.type = "Binary"
                    /\ OldValue(h, m) = Some(TRUE)
                    /\ NewValue(m) = Some(FALSE))
                   => CallsFor(h.calls, m.api_kind) = << Delete(m.api_kind) >>

\* SLAVE-RENOTIFY went from true to unset and NOTIFY-DNSUPDATE from true to
\* an explicit false in one run
C3_Witness ==
    \E h \in Runs :
        /\ IsUpdateRun(h)
        /\ params.metadata # None
        /\ h.before.meta["SLAVE-RENOTIFY"] = Some(<<"1">>)
        /\ params.metadata[1]["slave_renotify"] = None
        /\ h.before.meta["NOTIFY-DNSUPDATE"] = Some(<<"1">>)
        /\ params.metadata[1]["notify_dnsupdate"] = Some(FALSE)
        /\ h.after.meta["SLAVE-RENOTIFY"] = None
        /\ h.after.meta["NOTIFY-DNSUPDATE"] = None

\* ------------------------------------------------------------------ C4

\* C4: immutable metadata is never written. No run issues modifyMetadata or
\* deleteMetadata for an immutable kind (LUA-AXFR-SCRIPT), no createZone or
\* putZone payload carries an immutable zone field (presigned), and no
\* setter or updater is produced for an immutable item.
C4_ImmutableNeverWritten ==
    /\ \A h \in Runs : \A i \in DOMAIN h.calls :
          LET c == h.calls[i]
          IN /\ c.op \in {"modifyMetadata", "deleteMetadata"} =>
                    \A m \in Range(MetaRegistry) : m.immutable => c.kind # m.api_kind
             /\ c.op \in {"createZone", "putZone"} =>
                    \A m \in Range(ZoneRegistry) : m.immutable => c.payload[m.api_kind] = None
    /\ \A m \in Range(Metadata_updaters) \cup Range(ZoneMetadata_updaters) : ~m.immutable
    /\ (params.module = "zone" /\ params.metadata # None) =>
          \A m \in Range(Metadata_setters(params.metadata[1]))
                   \cup Range(ZoneMetadata_setters(params.metadata[1])) : ~m.immutable

\* an update that wrote metadata while the server held LUA-AXFR-SCRIPT, which
\* the run left as it was
C4_Witness ==
    \E h \in Runs :
        /\ IsUpdateRun(h)
        /\ params.metadata # None
        /\ h.before.meta["LUA-AXFR-SCRIPT"] # None
        /\ h.after.meta["LUA-AXFR-SCRIPT"] = h.before.meta["LUA-AXFR-SCRIPT"]
        /\ \E i \in DOMAIN h.calls : h.calls[i].op = "modifyMetadata"

\* ------------------------------------------------------------------ C5

DefaultField(m) ==
    CASE m.type = "Binary" -> Some("0")
      [] m.type = "List" -> Some(<<>>)
      [] m.type = "String" -> Some("")

WritesValue(m, newval) ==
    CASE m.type \in {"Binary", "Presence"} -> newval = Some(TRUE)
      [] m.type = "Ternary" -> newval # None
      [] m.type = "List" -> Len(newval[1]) # 0
      [] m.type = "String" -> newval[1] # ""

\* C6: per-kind diff cardinality. For every mutable metadata-endpoint item,
\* a run issues no call for it when the desired value equals the value read,
\* and otherwise exactly one: modifyMetadata when the target is truthy
\* (Boolean, Presence), non-null (Ternary) or non-empty (StringList,
\* String), deleteMetadata otherwise. The updaters' return values make the
\* run report changed exactly when it issued a mutating call.
C6_DiffCardinality ==
    \A h \in Runs :
        (IsUpdateRun(h) /\ params.metadata # None) =>
            /\ \A m \in MutableMeta :
                  LET calls == CallsFor(h.calls, m.api_kind)
                  IN IF NewValue(m) = OldValue(h, m)
                     THEN calls = <<>>
                     ELSE /\ Len(calls) = 1
                          /\ calls[1].op = IF WritesValue(m, NewValue(m))
                                           THEN "modifyMetadata" ELSE "deleteMetadata"
            /\ h.changed <=> Mutating(h.calls) # <<>>

\* a run that modified one item and deleted another
C6_Witness ==
    \E h \in Runs :
        /\ IsUpdateRun(h)
        /\ params.metadata # None
        /\ \E i, j \in DOMAIN h.calls :
              /\ h.calls[i].op = "modifyMetadata"
              /\ h.calls[j].op = "deleteMetadata"

\* ------------------------------------------------ reading an rrset run

PatchCalls(calls) == SelectSeq(calls, LAMBDA c : c.op = "patchZone")

\* the RRsets the run was asked for
Requested == Range(rrsets_struct(params))

\* the entries the run submitted for the requested RRset rs
EntriesFor(h, rs) ==
    IF PatchCalls(h.calls) = <<>> THEN <<>>
    ELSE SelectSeq(PatchCalls(h.calls)[1].payload,
                   LAMBDA e : e.name = rs.name /\ Some(e.type) = rs.type)

\* the RRset of rs's name and type the run found
Held(h, rs) == existing_rrset(h.before.rrsets, rs)

\* the rrset module, keep=true, ended without failure, having found an RRset
\* for rs whose records are not the given ones
IsKeepMerge(h, rs) ==
    /\ params.module = "rrset"
    /\ ~h.failed
    /\ rs.keep
    /\ Held(h, rs) # None
    /\ rs.records # None
    /\ rs.records[1] # Held(h, rs)[1].records

\* the rrset module, keep=true, ended without failure, having found an RRset
\* for rs whose records are exactly the given ones
IsKeepExact(h, rs) ==
    /\ params.module = "rrset"
    /\ ~h.failed
    /\ rs.keep
    /\ Held(h, rs) # None
    /\ rs.records = Some(Held(h, rs)[1].records)

\* the run submitted nothing
NothingSubmitted(h) == PatchCalls(h.calls) = <<>> /\ h.changed = FALSE

\* ------------------------------------------------------------------ C7

C8_KeepDeleteDifference ==
    \A h \in Runs :
        params.state = "absent" =>
            /\ \A rs \in Requested :
                  IsKeepMerge(h, rs) =>
                      LET ex == Held(h, rs)[1].records
                          rest == SelectSeq(ex, LAMBDA r : ~InList(r, rs.records[1]))
                      IN IF rest = ex
                         THEN EntriesFor(h, rs) = <<>>
                         ELSE /\ Len(PatchCalls(h.calls)) = 1
                              /\ EntriesFor(h, rs) =
                                    << [name |-> rs.name, type |-> rs.type[1],
                                        changetype |-> "REPLACE", ttl |-> Some(rs.ttl),
                                        records |-> Some(rest)] >>
            /\ (params.module = "rrset" /\ ~h.failed
                    /\ \A rs \in Requested : EntriesFor(h, rs) = <<>>)
               => NothingSubmitted(h)

\* the zone held two records, one of them was to be removed, and the patch
\* replaced the RRset by the other
C8_Witness ==
    \E h \in Runs : \E rs \in Requested :
        /\ params.state = "absent"
        /\ IsKeepMerge(h, rs)
        /\ Len(Held(h, rs)[1].records) = 2
        /\ Len(rs.records[1]) = 1
        /\ Len(EntriesFor(h, rs)) = 1
        /\ EntriesFor(h, rs)[1].changetype = "REPLACE"
        /\ EntriesFor(h, rs)[1].records = Some(<< Held(h, rs)[1].records[1] >>)

\* ------------------------------------------------------------------ C9

\* C9: RRset keep+DELETE exact match. With keep=true and given records equal
\* to the existing records exactly, a state=absent run submits for the RRset
\* one entry of changetype DELETE, carrying no records, which removes the
\* whole RRset, and never a REPLACE with an empty records list; a
\* state=present run submits no entry for it.
C9_KeepExactMatch ==
    \A h \in Runs : \A rs \in Requested :
        IsKeepExact(h, rs) =>
            /\ params.state = "absent" =>
                  /\ EntriesFor(h, rs) =
                        << [name |-> rs.name, type |-> rs.type[1], changetype |-> "DELETE",
                            ttl |-> None, records |-> None] >>
                  /\ Held([before |-> h.after], rs) = None
            /\ params.state = "present" => EntriesFor(h, rs) = <<>>

\* an exact match was deleted as a whole
C9_Witness ==
    \E h \in Runs : \E rs \in Requested :
        /\ params.state = "absent"
        /\ IsKeepExact(h, rs)
        /\ Len(EntriesFor(h, rs)) = 1
        /\ EntriesFor(h, rs)[1].changetype = "DELETE"
        /\ Held([before |-> h.after], rs) = None

\* ----------------------------------------------------------------- C10

\* C10: RRset idempotence. When the rrset module runs twice in succession
\* with state=present and the same parameters (any keep), and the first run
\* ends without failure, the second run reports changed=false and issues no
\* patchZone call.
C10_RRsetIdempotent ==
    (/\ params.module = "rrset"
     /\ params.state = "present"
     /\ Len(history) >= 2
     /\ ~history[1].failed)
    => /\ history[2].changed = FALSE
       /\ PatchCalls(history[2].calls) = <<>>

\* ----------------------------------------------------------------- C11

\* the RRset r is one the run was asked for
IsRequested(r) ==
    \E rs \in Requested : r.name = rs.name /\ Some(r.type) = rs.type

\* C11: RRset patch scope. Every entry of every patchZone payload has the
\* lowercased requested name, a record type the caller requested in this
\* invocation and a changetype of REPLACE or DELETE; the RRsets of the zone
\* that have another name or another type are after the run what they were
\* before it.
C11_PatchScope ==
    \A h \in Runs :
        params.module = "rrset" =>
            /\ \A i \in DOMAIN h.calls :
                  h.calls[i].op = "patchZone" =>
                      \A j \in DOMAIN h.calls[i].payload :
                          LET e == h.calls[i].payload[j]
                          IN /\ e.name = Lower(params.name)
                             /\ \E rs \in Requested : rs.type = Some(e.type)
                             /\ e.changetype \in {"REPLACE", "DELETE"}
            /\ SelectSeq(h.after.rrsets, LAMBDA r : ~IsRequested(r))
                  = SelectSeq(h.before.rrsets, LAMBDA r : ~IsRequested(r))

\* a patch for a name given in upper case, in a zone that holds an RRset of
\* that name and another type and an RRset of another name
C11_Witness ==
    \E h \in Runs :
        /\ params.module = "rrset"
        /\ params.name # Lower(params.name)
        /\ PatchCalls(h.calls) # <<>>
        /\ h.after.rrsets # h.before.rrsets
        /\ \E i, j \in DOMAIN h.before.rrsets :
              /\ h.before.rrsets[i].name = Lower(params.name)
              /\ ~IsRequested(h.before.rrsets[i])
              /\ h.before.rrsets[j].name # Lower(params.name)

\* a remote call of the run raised an API error: the run was given the index
\* of a failing call and reached it
RemoteError(h) == h.failAt # 0 /\ Len(h.calls) >= h.failAt

\* ----------------------------------------------------------------- C12

\* C12: RRset delete of a missing RRset. With state=absent and no remote
\* error, when the zone
\* holds no RRset of the name for one of the requested types, the run fails
\* with 'No matching RRset found' and issues no patchZone for any of the
\* requested RRsets, leaving the zone as it was; when the RRset exists and
\* keep=false, the run submits the given RRset verbatim with changetype
\* DELETE.
C12_DeleteMissingFails ==
    \A h \in Runs :
        (params.module = "rrset" /\ params.state = "absent" /\ ~RemoteError(h)) =>
            /\ (\E rs \in Requested : Held(h, rs) = None) =>
                  /\ h.failed
                  /\ h.msg = "No matching RRset found"
                  /\ h.changed = FALSE
                  /\ PatchCalls(h.calls) = <<>>
                  /\ h.after = h.before
            /\ \A rs \in Requested :
                  (~h.failed /\ ~rs.keep /\ Held(h, rs) # None) =>
                      EntriesFor(h, rs) =
                          << [name |-> rs.name, type |-> rs.type[1], changetype |-> "DELETE",
                              ttl |-> Some(rs.ttl), records |-> rs.records] >>

\* two types were to be deleted, the zone held one of them, and nothing was
\* submitted
C12_Witness ==
    \E h \in Runs :
        /\ params.module = "rrset"
        /\ params.state = "absent"
        /\ h.failed
        /\ h.msg = "No matching RRset found"
        /\ \E rs1, rs2 \in Requested : Held(h, rs1) = None /\ Held(h, rs2) # None
        /\ PatchCalls(h.calls) = <<>>

\* --------------------------------------------------- reading a zone run

\* the calls of a run through the wrapper method op
CallsOf(h, op) == SelectSeq(h.calls, LAMBDA c : c.op = op)

\* the zone module found the zone
IsZoneFound(h) == params.module = "zone" /\ h.before.exists

\* the zone module's lookup returned no zone
IsZoneMissing(h) == params.module = "zone" /\ ~h.before.exists

\* ----------------------------------------------------------------- C13

C14_RetrieveGating ==
    \A h \in Runs :
        (IsZoneFound(h) /\ params.state = "retrieve" /\ ~RemoteError(h)) =>
            IF h.before.kind \in {"Slave", "Consumer"}
            THEN /\ ~h.failed
                 /\ Len(CallsOf(h, "axfrRetrieveZone")) = 1
                 /\ h.changed
            ELSE /\ h.failed
                 /\ CallsOf(h, "axfrRetrieveZone") = <<>>
                 /\ h.changed = FALSE
                 /\ Mutating(h.calls) = <<>>

\* a Consumer zone was retrieved
C14_Witness ==
    \E h \in Runs :
        /\ IsZoneFound(h)
        /\ params.state = "retrieve"
        /\ h.before.kind = "Consumer"
        /\ Len(CallsOf(h, "axfrRetrieveZone")) = 1
        /\ h.changed

\* ----------------------------------------------------------------- C15

\* C15: notify on a Slave zone, as the module documents it. When
\* state=notify is requested for an existing zone of kind Slave, the run
\* succeeds and issues the notify operation to the server.
C15_NotifySlaveSucceeds ==
    \A h \in Runs :
        (IsZoneFound(h) /\ params.state = "notify" /\ h.before.kind = "Slave") =>
            /\ ~h.failed
            /\ Len(CallsOf(h, "notifyZone")) = 1

\* ----------------------------------------------------------------- C16

CreationMessages ==
    {"'properties' must be specified for zone creation",
     "'properties -> soa' must be specified for zone creation",
     "'properties -> nameservers' must be specified for zone creation",
     "type is not permitted in 'properties -> rrsets'"}

\* C16: zone resolution outcomes. When the name lookup returns no zone (and
\* no remote call raises an API error),
\* state exists or absent ends successfully with changed=false,
\* zone.exists=false and no remote call after the lookup; state notify or
\* retrieve ends in a fatal error with no notifyZone or axfrRetrieveZone
\* call; state present goes on to create the zone: its next remote call is
\* createZone, unless a creation validation ends the run first.
C16_ResolutionOutcomes ==
    \A h \in Runs :
        (IsZoneMissing(h) /\ ~RemoteError(h)) =>
            /\ params.state \in {"exists", "absent"} =>
                  /\ ~h.failed
                  /\ h.changed = FALSE
                  /\ h.zone = Some([name |-> params.name, exists |-> FALSE])
                  /\ h.calls = << Call("listZones", "", <<>>) >>
            /\ params.state \in {"notify", "retrieve"} =>
                  /\ h.failed
                  /\ h.changed = FALSE
                  /\ h.calls = << Call("listZones", "", <<>>) >>
            /\ params.state = "present" =>
                  IF h.failed
                  THEN h.msg \in CreationMessages /\ Len(h.calls) = 1
                  ELSE /\ Len(h.calls) >= 2
                       /\ h.calls[2].op = "createZone"
                       /\ h.after.exists

\* a notify for a zone the lookup did not find ended in its fatal error after
\* the lookup alone
C16_Witness ==
    \E h \in Runs :
        /\ IsZoneMissing(h)
        /\ params.state = "notify"
        /\ h.failed
        /\ h.msg = "NOTIFY cannot be requested for a non-existent zone"
        /\ Len(h.calls) = 1

\* ----------------------------------------------------------------- C17

\* the operations of the remote API that read
ReadOps ==
    {"listZones", "listZone", "listMetadata", "listTSIGKeys", "getTSIGKey",
     "listCryptokeys", "getCryptokey"}

\* C17: state=exists never mutates. In the zone, rrset, tsigkey and
\* cryptokey modules an invocation with state=exists issues only read
\* operations (list/get), reports changed=false and leaves the server as it
\* was, whatever other parameters are supplied and whether or not the entity
\* exists.
C17_ExistsNeverMutates ==
    \A h \in Runs :
        params.state = "exists" =>
            /\ \A i \in DOMAIN h.calls : h.calls[i].op \in ReadOps
            /\ ~h.changed
            /\ h.after = h.before

\* an existence check of a cryptokey by the id of a key the zone holds, with
\* a cryptokey definition nowhere near, has read the key and ended
C17_Witness ==
    \E h \in Runs :
        /\ params.module = "cryptokey"
        /\ params.state = "exists"
        /\ params.cryptokey_id # None
        /\ h.before.cryptokeys # <<>>
        /\ CallsOf(h, "getCryptokey") # <<>>
        /\ ~h.failed

\* ----------------------------------------------------------------- C18

\* the delete calls of a run
Deletes(h) == SelectSeq(h.calls, LAMBDA c : c.op \in {"deleteZone", "deleteTSIGKey"})

\* the TSIG keys of the requested name among keys
Named(keys) == SelectSeq(keys, LAMBDA k : k.name = params.name)

\* the lookup of the run resolved the name: the zone module found the zone,
\* the tsigkey module (which looks nothing up in check mode) found the key
Resolved(h) ==
    IF params.module = "zone" THEN h.before.exists
    ELSE ~params.check_mode /\ Named(h.before.tsigkeys) # <<>>

\* C18: state=absent for zones and TSIG keys. Unless a lookup call raised an
\* API error, a delete call is issued exactly when the name resolved, once, for a TSIG key with the id the lookup gave
\* (the zone wrapper carries the zone's id itself); changed is true if and
\* only if a delete call was issued and succeeded, and then the entity is
\* gone; a second state=absent run after a run that did not fail reports
\* changed=false and issues no delete.
C18_AbsentDeletesOnce ==
    \A i \in DOMAIN history :
        LET h == history[i] IN
        (/\ params.state = "absent" /\ params.module \in {"zone", "tsigkey"}
         /\ ~(RemoteError(h) /\ Deletes(h) = <<>>)) =>
            /\ Deletes(h) # <<>> <=> Resolved(h)
            /\ Len(Deletes(h)) <= 1
            /\ (params.module = "tsigkey" /\ Deletes(h) # <<>>) =>
                    Deletes(h)[1].kind = Named(h.before.tsigkeys)[1].id
            /\ h.changed <=> (Deletes(h) # <<>> /\ ~h.failed)
            /\ h.changed =>
                    IF params.module = "zone" THEN ~h.after.exists
                    ELSE /\ Named(h.after.tsigkeys) = <<>>
                         /\ Len(h.after.tsigkeys) = Len(h.before.tsigkeys) - 1
            /\ (i > 1 /\ ~history[i - 1].failed) => (~h.changed /\ Deletes(h) = <<>>)

\* a TSIG key held beside a key of another name was deleted by the first
\* state=absent run, and the second run issued no delete
C18_Witness ==
    /\ params.module = "tsigkey"
    /\ params.state = "absent"
    /\ Len(history) = 2
    /\ Len(history[1].before.tsigkeys) = 2
    /\ history[1].changed
    /\ Deletes(history[1]) # <<>>
    /\ ~history[2].changed
    /\ Deletes(history[2]) = <<>>
    /\ Len(server.tsigkeys) = 1

\* ----------------------------------------------------------------- C19

\* the run is a creation: state=present on a zone the lookup did not find,
\* and createZone was issued
IsCreation(h) ==
    /\ params.module = "zone"
    /\ params.state = "present"
    /\ ~h.before.exists
    /\ CallsOf(h, "createZone") # <<>>

\* the rrsets the caller supplied
Supplied == IF params.properties[1].rrsets = None THEN <<>> ELSE params.properties[1].rrsets[1]

\* C19: creation field expansion. The createZone payload of a Native, Master
\* or Producer zone has an empty top-level nameservers list and rrsets
\* starting with exactly an SOA RRset with one record and an NS RRset with
\* one record per supplied nameserver, in the order given, both named after
\* the zone; the caller's rrsets follow these two in their order, so that
\* without caller rrsets there are exactly two; the payload of a Slave or
\* Consumer zone has no rrsets and no nameservers field.
C19_CreationExpansion ==
    \A h \in Runs :
        IsCreation(h) =>
            LET zs == CallsOf(h, "createZone")[1].payload
                props == params.properties[1]
            IN IF props.kind \in {"Native", "Master", "Producer"}
               THEN /\ zs["nameservers"] = Some(<<>>)
                    /\ zs["rrsets"] # None
                    /\ LET rr == zs["rrsets"][1] IN
                       /\ Len(rr) = 2 + Len(Supplied)
                       /\ rr[1].type = "SOA" /\ rr[1].name = params.name
                       /\ Len(rr[1].records) = 1
                       /\ rr[2].type = "NS" /\ rr[2].name = params.name
                       /\ Len(rr[2].records) = Len(props.nameservers[1])
                       /\ \A i \in DOMAIN rr[2].records :
                              rr[2].records[i].content = props.nameservers[1][i]
                       /\ \A i \in DOMAIN Supplied :
                              /\ rr[2 + i].name = Supplied[i].name
                              /\ rr[2 + i].type = Supplied[i].type
                              /\ rr[2 + i].records = Supplied[i].records
               ELSE zs["rrsets"] = None /\ zs["nameservers"] = None

\* a Native zone was created with two nameservers and two caller rrsets
C19_Witness ==
    \E h \in Runs :
        /\ IsCreation(h)
        /\ params.properties[1].kind = "Native"
        /\ Len(params.properties[1].nameservers[1]) = 2
        /\ Len(Supplied) = 2
        /\ ~h.failed
        /\ Len(h.after.rrsets) = 4

\* ----------------------------------------------------------------- C20

\* state=present targets a zone the lookup did not find
IsCreationAttempt(h) ==
    /\ params.module = "zone"
    /\ params.state = "present"
    /\ ~h.before.exists

\* the properties name a kind that holds its own data
PrimaryKind == params.properties[1].kind \in {"Native", "Master", "Producer"}

\* soa or nameservers is missing or empty
LacksSoaOrNameservers ==
    \/ params.properties[1].soa = None
    \/ params.properties[1].nameservers \in {None, Some(<<>>)}

\* a caller rrset has type SOA or NS
HasReservedRRset == \E i \in DOMAIN Supplied : Supplied[i].type \in {"SOA", "NS"}

\* the run ended in a fatal error with changed=false and without a mutating
\* call, the server as it was
RejectedUnmutated(h) ==
    /\ h.failed
    /\ ~h.changed
    /\ Mutating(h.calls) = <<>>
    /\ h.after = h.before

\* C20 as stated: creation validation precedes mutation. When state=present
\* targets a nonexistent zone and properties are missing, or the kind is
\* Native/Master/Producer and soa or nameservers is missing or empty, or a
\* caller rrset has type SOA or NS (whatever the kind), the invocation ends
\* in a fatal error with changed=false and no mutating call is issued.
C20_ValidationPrecedesMutation ==
    \A h \in Runs :
        (/\ IsCreationAttempt(h)
         /\ \/ params.properties = None
            \/ PrimaryKind /\ LacksSoaOrNameservers
            \/ HasReservedRRset)
        => RejectedUnmutated(h)

\* C20 amended: the caller's rrsets are looked at only when the kind is
\* Native, Master or Producer. When state=present targets a nonexistent zone
\* and properties are missing, or the kind is Native/Master/Producer and soa
\* or nameservers is missing or empty or a caller rrset has type SOA or NS,
\* the invocation ends in a fatal error with changed=false and no mutating
\* call is issued; a Slave or Consumer zone given such an rrset is created,
\* the rrsets left out of the payload.
C20_PrimaryValidationPrecedesMutation ==
    \A h \in Runs :
        IsCreationAttempt(h) =>
            /\ (\/ params.properties = None
                \/ PrimaryKind /\ (LacksSoaOrNameservers \/ HasReservedRRset))
               => RejectedUnmutated(h)
            /\ (params.properties # None /\ ~PrimaryKind /\ HasReservedRRset /\ failAt = 0)
               => /\ ~h.failed
                  /\ h.changed
                  /\ CallsOf(h, "createZone") # <<>>
                  /\ CallsOf(h, "createZone")[1].payload["rrsets"] = None

\* a Native creation with soa and nameservers whose second caller rrset has
\* type NS was refused after the lookup alone
C20_Witness ==
    \E h \in Runs :
        /\ IsCreationAttempt(h)
        /\ params.properties # None
        /\ params.properties[1].kind = "Native"
        /\ ~LacksSoaOrNameservers
        /\ Len(Supplied) = 2
        /\ Supplied[1].type = "A"
        /\ Supplied[2].type = "NS"
        /\ h.failed
        /\ Len(h.calls) = 1

\* ----------------------------------------------------------------- C21

\* C21: missing masters at Slave/Consumer creation is a validation error.
\* When state=present targets a nonexistent zone with kind Slave or Consumer
\* and no masters are supplied, the invocation ends in a fatal error and
\* createZone is never issued.
C21_MissingMastersRejected ==
    \A h \in Runs :
        (/\ IsCreationAttempt(h)
         /\ params.properties # None
         /\ params.properties[1].kind \in {"Slave", "Consumer"}
         /\ params.properties[1].masters \in {None, Some(<<>>)})
        => (h.failed /\ CallsOf(h, "createZone") = <<>>)

\* ----------------------------------------------------------------- C22

\* the name ends with '.', among the names the runs use
IsAbsolute(name) == name # RelativeName

\* the nameservers supplied with the properties
SuppliedNameservers ==
    IF params.properties = None \/ params.properties[1].nameservers = None THEN <<>>
    ELSE params.properties[1].nameservers[1]

\* C22: name validation precedes mutation. When the zone name or any
\* supplied nameserver name is not absolute (does not end with '.'), the zone
\* module ends in a fatal validation error and no createZone or putZone call
\* is issued.
C22_NameValidationPrecedesMutation ==
    \A h \in Runs :
        (/\ params.module = "zone"
         /\ \/ ~IsAbsolute(params.name)
            \/ \E i \in DOMAIN SuppliedNameservers : ~IsAbsolute(SuppliedNameservers[i]))
        => (h.failed /\ StructCalls(h.calls) = <<>>)

\* ----------------------------------------------------------------- C23

\* the putZone calls of a run
PutCalls(h) == CallsOf(h, "putZone")

\* the desired properties name a kind other than the zone's
KindDiffers(h) == params.properties[1].kind # h.before.kind

\* one list is a reordering of the other
IsReordering(a, b) ==
    /\ Len(a) = Len(b)
    /\ \E f \in [DOMAIN a -> DOMAIN b] :
          /\ \A i, j \in DOMAIN a : f[i] = f[j] => i = j
          /\ \A i \in DOMAIN a : a[i] = b[f[i]]

\* the desired kind is Slave or Consumer and the masters given, sorted, are
\* not the zone's masters, sorted
MastersDiffer(h) ==
    /\ params.properties[1].kind \in {"Slave", "Consumer"}
    /\ params.properties[1].masters # None
    /\ ~IsReordering(params.properties[1].masters[1], h.before.masters)

\* the desired account is non-empty and not the zone's
AccountDiffers(h) ==
    /\ params.properties[1].account \notin {None, Some("")}
    /\ params.properties[1].account[1] # h.before.account

\* the desired catalog is non-empty and not the zone's
CatalogDiffers(h) ==
    /\ params.properties[1].catalog \notin {None, Some("")}
    /\ params.properties[1].catalog # h.before.catalog

\* C23: the zone-properties diff is minimal. On an update of an existing
\* zone (no remote call before putZone raising an API error) putZone is called at most once and never with an empty payload; the
\* payload holds 'kind' exactly when the desired kind differs from the
\* current one, 'masters' only if the desired kind is Slave/Consumer and the
\* sorted desired and current master lists differ, 'account' and 'catalog'
\* exactly when the desired value is non-empty and differs from the current
\* one, each with the desired value; a field the payload lacks is left out
\* because its condition fails, and without properties and metadata there
\* is no putZone at all. When no metadata is given putZone is called if and
\* only if one of these four differs.
C23_PropertiesDiffMinimal ==
    \A h \in Runs :
        (/\ params.module = "zone" /\ params.state = "present" /\ h.before.exists
         /\ ~(RemoteError(h) /\ PutCalls(h) = <<>>)) =>
            /\ Len(PutCalls(h)) <= 1
            /\ \A i \in DOMAIN PutCalls(h) : StructLen(PutCalls(h)[i].payload) >= 1
            /\ (params.properties = None /\ params.metadata = None) => PutCalls(h) = <<>>
            /\ params.properties = None =>
                  \A i \in DOMAIN PutCalls(h) :
                      \A k \in {"kind", "masters", "account", "catalog"} :
                          PutCalls(h)[i].payload[k] = None
            /\ params.properties # None =>
                  LET props == params.properties[1]
                      sent(k) == IF PutCalls(h) = <<>> THEN None ELSE PutCalls(h)[1].payload[k]
                  IN /\ sent("kind") = IF KindDiffers(h) THEN Some(props.kind) ELSE None
                     /\ sent("masters") # None => MastersDiffer(h)
                     /\ sent("masters") = IF MastersDiffer(h) /\ props.masters # Some(<<>>)
                                          THEN props.masters ELSE None
                     /\ sent("account") = IF AccountDiffers(h) THEN props.account ELSE None
                     /\ sent("catalog") = IF CatalogDiffers(h) THEN props.catalog ELSE None
                     /\ params.metadata = None =>
                           (PutCalls(h) # <<>> <=>
                               \/ KindDiffers(h)
                               \/ MastersDiffer(h) /\ props.masters # Some(<<>>)
                               \/ AccountDiffers(h)
                               \/ CatalogDiffers(h))

\* a Slave zone with two masters was given the same masters in the other
\* order and a new account: putZone carried the account and no masters
C23_Witness ==
    \E h \in Runs :
        /\ params.module = "zone" /\ params.state = "present" /\ h.before.exists
        /\ params.properties # None
        /\ params.properties[1].kind = "Slave"
        /\ h.before.kind = "Slave"
        /\ Len(h.before.masters) = 2
        /\ params.properties[1].masters # None
        /\ params.properties[1].masters[1] # h.before.masters
        /\ IsReordering(params.properties[1].masters[1], h.before.masters)
        /\ Len(PutCalls(h)) = 1
        /\ PutCalls(h)[1].payload["account"] = Some("new")
        /\ PutCalls(h)[1].payload["masters"] = None

\* ----------------------------------------------------------------- C24

\* the 'zone' entry that describes the server srv
Snapshot(srv) ==
    IF srv.exists THEN Some(build_zone_result(srv))
    ELSE Some([name |-> params.name, exists |-> FALSE])

\* C24: the zone result is the converged snapshot. On every successful exit
\* of the zone module that resolved or changed a zone, for each of the
\* states present, absent, exists, notify and retrieve, the returned 'zone'
\* entry equals the zone's state on the server at exit (including
\* 'exists'); the zone is read once when it is resolved and once more if
\* and only if a change was applied.
C24_ResultIsSnapshot ==
    \A h \in Runs :
        (params.module = "zone" /\ ~h.failed /\ (h.before.exists \/ h.changed)) =>
            /\ h.zone = Snapshot(h.after)
            /\ Len(CallsOf(h, "listZone")) =
                  (IF h.before.exists THEN 1 ELSE 0) + (IF h.changed THEN 1 ELSE 0)

\* ----------------------------------------------------------------- C25

\* C25: the RRset result always carries rrsets. Every successful exit of the
\* rrset module (state present, absent or exists, changed or not) returns an
\* 'rrsets' list, which after a change holds the zone's RRsets as re-read
\* from the server.
C25_RRsetsAlwaysReturned ==
    \A h \in Runs :
        (params.module = "rrset" /\ ~h.failed) =>
            /\ h.rrsets # None
            /\ h.changed => h.rrsets = Some(h.after.rrsets)

\* ----------------------------------------------------------------- C26

\* the run ended in the API exception handler: it failed with the message the
\* handler builds for the last call issued
EndedInApiError(h) ==
    /\ h.failed
    /\ h.calls # <<>>
    /\ h.msg = "API operation " \o h.calls[Len(h.calls)].op \o " returned 'remote error'"

\* the server after the calls took effect in order
RECURSIVE Replay(_, _)
Replay(srv, calls) ==
    IF calls = <<>> THEN srv
    ELSE Replay(ApplyKeyCall(ApplyCall(srv, Head(calls)), Head(calls)), Tail(calls))

\* C26: remote API errors halt the invocation. When a wrapped remote call
\* raises one of the caught API errors the run ends in failure with the
\* handler's message naming the call and the remote error text; the failed
\* call is the last call of the run (not retried, nothing issued after it);
\* the server holds the effect of the calls before it and nothing of the
\* failed call; and the result carries changed as set so far: changed=true
\* only where a mutating call succeeded before the failure, changed=false
\* when the first call failed.
C26_RemoteErrorHalts ==
    \A h \in Runs :
        /\ RemoteError(h) =>
              /\ EndedInApiError(h)
              /\ Len(h.calls) = h.failAt
        /\ EndedInApiError(h) =>
              LET before == SubSeq(h.calls, 1, Len(h.calls) - 1) IN
              /\ h.after = Replay(h.before, before)
              /\ h.changed => Mutating(before) # <<>>
              /\ Len(h.calls) = 1 => (~h.changed /\ h.after = h.before)

\* a zone update was cut short after putZone had taken effect: the run
\* failed with changed=true, the zone altered and the failed call last
C26_Witness ==
    \E h \in Runs :
        /\ params.module = "zone"
        /\ RemoteError(h)
        /\ h.failAt >= 4
        /\ CallsOf(h, "putZone") # <<>>
        /\ h.calls[h.failAt].op \in {"modifyMetadata", "deleteMetadata"}
        /\ h.failed
        /\ h.changed
        /\ h.after # h.before

\* ----------------------------------------------------------------- C27

\* the run is asked to create a cryptokey and reaches the creation branch:
\* the zone is there and no lookup call raised an API error
IsCryptokeyCreation(h) ==
    /\ params.module = "cryptokey"
    /\ params.state = "present"
    /\ params.cryptokey_id = None
    /\ h.before.exists
    /\ ~(RemoteError(h) /\ CallsOf(h, "createCryptokey") = <<>>)

\* the algorithm names of the runs that contain 'rsa' in some letter case
RsaNames == {"rsasha256", "RSASHA512"}

\* C27: cryptokey creation requirements. With state=present and no
\* cryptokey_id, createCryptokey is issued (once) exactly when keytype is
\* given and either algorithm or both dnskey and privatekey are given;
\* otherwise the run fails, unchanged, without a createCryptokey call. The
\* submitted key holds keytype, active and published, plus algorithm (and
\* bits exactly when the algorithm name contains 'rsa' in any letter case)
\* for a generated key, or dnskey and privatekey for an imported key, and
\* no other field.
C27_CryptokeyCreationRequirements ==
    \A h \in Runs :
        IsCryptokeyCreation(h) =>
            LET def == params.cryptokey[1]
                creates == CallsOf(h, "createCryptokey")
                complete == /\ def.keytype # None
                            /\ \/ def.algorithm # None
                               \/ def.dnskey # None /\ def.privatekey # None
            IN /\ creates # <<>> <=> complete
               /\ Len(creates) <= 1
               /\ ~complete =>
                     /\ h.failed
                     /\ h.changed = FALSE
                     /\ h.after = h.before
                     /\ Mutating(h.calls) = <<>>
               /\ \A i \in DOMAIN creates :
                     LET key == creates[i].payload IN
                     /\ key.keytype = def.keytype[1]
                     /\ key.active = def.active
                     /\ key.published = def.published
                     /\ IF def.algorithm # None
                        THEN /\ key.algorithm = def.algorithm
                             /\ key.bits = IF def.algorithm[1] \in RsaNames
                                           THEN Some(def.bits) ELSE None
                             /\ key.dnskey = None
                             /\ key.privatekey = None
                        ELSE /\ key.algorithm = None
                             /\ key.bits = None
                             /\ key.dnskey = def.dnskey
                             /\ key.privatekey = def.privatekey

\* a key of an RSA algorithm written in capitals was created with bits, and
\* the server holds one key more
C27_Witness ==
    \E h \in Runs :
        /\ IsCryptokeyCreation(h)
        /\ params.cryptokey[1].algorithm = Some("RSASHA512")
        /\ Len(CallsOf(h, "createCryptokey")) = 1
        /\ CallsOf(h, "createCryptokey")[1].payload.bits = Some(4096)
        /\ h.changed
        /\ Len(h.after.cryptokeys) = Len(h.before.cryptokeys) + 1

\* ----------------------------------------------------------------- C28

\* the run is to modify or delete the cryptokey of a given id and has read
\* the key listing: the zone is there and neither lookup call raised an
\* API error
IsCryptokeyChange(h) ==
    /\ params.module = "cryptokey"
    /\ params.state \in {"present", "absent"}
    /\ params.cryptokey_id # None
    /\ h.before.exists
    /\ ~(RemoteError(h) /\ h.failAt <= 2)

\* the id is the id, written as a string, of a key the zone held at the start
IsKnownId(h) ==
    \E i \in DOMAIN h.before.cryptokeys :
        Str(h.before.cryptokeys[i].id) = params.cryptokey_id[1]

\* C28: cryptokey modify and delete require existence. With a cryptokey_id
\* that is not among the ids of the key listing read in the run,
\* state=present and state=absent both end in the 'not found' fatal error
\* with changed=false, the server untouched and no modifyCryptokey or
\* deleteCryptokey call; with a known id the one call is issued for that
\* id, and modifyCryptokey submits the fields 'active' and 'published' of
\* the request and no other.
C28_CryptokeyChangeNeedsKey ==
    \A h \in Runs :
        IsCryptokeyChange(h) =>
            LET changes == SelectSeq(h.calls,
                               LAMBDA c : c.op \in {"modifyCryptokey", "deleteCryptokey"})
            IN IF IsKnownId(h)
               THEN /\ Len(changes) = 1
                    /\ changes[1].kind = params.cryptokey_id[1]
                    /\ changes[1].op =
                          IF params.state = "present" THEN "modifyCryptokey" ELSE "deleteCryptokey"
                    /\ params.state = "present" =>
                          /\ DOMAIN changes[1].payload = {"active", "published"}
                          /\ changes[1].payload.active = params.cryptokey[1].active
                          /\ changes[1].payload.published = params.cryptokey[1].published
               ELSE /\ h.failed
                    /\ h.msg = "Key of id not found for zone"
                    /\ h.changed = FALSE
                    /\ changes = <<>>
                    /\ Mutating(h.calls) = <<>>
                    /\ h.after = h.before

\* the deletion of a key of an id the zone does not hold, beside two keys it
\* holds, ended in the fatal error and the two keys are still there
C28_Witness ==
    \E h \in Runs :
        /\ IsCryptokeyChange(h)
        /\ params.state = "absent"
        /\ ~IsKnownId(h)
        /\ Len(h.before.cryptokeys) = 2
        /\ h.failed
        /\ h.msg = "Key of id not found for zone"
        /\ CallsOf(h, "deleteCryptokey") = <<>>
        /\ server.cryptokeys = h.before.cryptokeys

\* ----------------------------------------------------------------- C29

\* the create and update calls of a run of the tsigkey module
KeyWrites(h) == SelectSeq(h.calls, LAMBDA c : c.op \in {"createTSIGKey", "putTSIGKey"})

\* the run reconciles a TSIG key: state=present outside check mode, and no
\* lookup call raised an API error
IsKeyReconcile(h) ==
    /\ params.module = "tsigkey"
    /\ params.state = "present"
    /\ ~params.check_mode
    /\ ~(RemoteError(h) /\ KeyWrites(h) = <<>>)

\* a key value was supplied: given and not empty
KeySupplied == params.key \notin {None, Some("")}

\* C29: TSIG key reconciliation. With state=present a key the server does
\* not hold is created by one createTSIGKey with the requested name and
\* algorithm, and the key value only if one was supplied; a key it holds is
\* updated with a payload holding the algorithm only if it differs from the
\* held one and the key value only if supplied and different, for the id
\* the lookup gave, and putTSIGKey is called if and only if that payload is
\* not empty; changed is true exactly when the one write succeeded; and the
\* same invocation after a run that did not fail reports changed=false
\* with no create or put call, the server as it was.
C29_TSIGKeyReconciliation ==
    \A i \in DOMAIN history :
        LET h == history[i]
            held == Named(h.before.tsigkeys)
            writes == KeyWrites(h)
        IN IsKeyReconcile(h) =>
            /\ Len(writes) <= 1
            /\ h.changed <=> (writes # <<>> /\ ~h.failed)
            /\ IF held = <<>>
               THEN /\ Len(writes) = 1
                    /\ writes[1].op = "createTSIGKey"
                    /\ writes[1].payload.name = params.name
                    /\ writes[1].payload.algorithm = params.algorithm
                    /\ writes[1].payload.key = IF KeySupplied THEN params.key ELSE None
               ELSE LET algorithmDiffers == params.algorithm # held[1].algorithm
                        keyDiffers == KeySupplied /\ params.key[1] # held[1].key
                    IN /\ writes # <<>> <=> (algorithmDiffers \/ keyDiffers)
                       /\ \A j \in DOMAIN writes :
                             /\ writes[j].op = "putTSIGKey"
                             /\ writes[j].kind = held[1].id
                             /\ writes[j].payload.algorithm =
                                   IF algorithmDiffers THEN Some(params.algorithm) ELSE None
                             /\ writes[j].payload.key =
                                   IF keyDiffers THEN params.key ELSE None
            /\ (i > 1 /\ ~history[i - 1].failed) =>
                  /\ h.changed = FALSE
                  /\ writes = <<>>
                  /\ h.after = h.before

\* a held key was given another algorithm and the key value it has: the
\* first run put the algorithm alone, the second run wrote nothing
C29_Witness ==
    /\ params.module = "tsigkey"
    /\ Len(history) = 2
    /\ IsKeyReconcile(history[1])
    /\ Named(history[1].before.tsigkeys) # <<>>
    /\ params.key = Some("s1")
    /\ Len(KeyWrites(history[1])) = 1
    /\ KeyWrites(history[1])[1].payload.algorithm = Some(params.algorithm)
    /\ KeyWrites(history[1])[1].payload.key = None
    /\ history[1].changed
    /\ KeyWrites(history[2]) = <<>>
    /\ ~history[2].changed

\* ----------------------------------------------------------------- C30

\* the run of the same state against the same server, the same remote call
\* failing, with neither properties nor metadata given
WithoutPropertiesAndMetadata(h) ==
    zone_main(h.before, [params EXCEPT !.properties = None, !.metadata = None], h.failAt)

\* C30: properties and metadata are ignored outside state=present. For
\* state exists, absent, notify or retrieve the remote calls of a run of the
\* zone module, in order, and its result (changed, the zone returned,
\* success or failure and the message) and the server it leaves are those
\* of the run without properties and metadata: they are the same for every
\* value of the two parameters.
C30_PropertiesIgnoredOutsidePresent ==
    \A h \in Runs :
        (params.module = "zone" /\ params.state \in {"exists", "absent", "notify", "retrieve"}) =>
            LET plain == WithoutPropertiesAndMetadata(h) IN
            /\ h.calls = plain.calls
            /\ h.changed = plain.changed
            /\ h.zone = plain.zone
            /\ h.failed = plain.failed
            /\ h.msg = plain.msg
            /\ h.after = plain.srv

\* a Master zone was notified by a run given properties of another kind and
\* a metadata item the zone lacks, and nothing of them was written
C30_Witness ==
    \E h \in Runs :
        /\ params.module = "zone"
        /\ params.state = "notify"
        /\ params.properties # None
        /\ params.properties[1].kind = "Slave"
        /\ params.metadata # None
        /\ h.before.exists
        /\ h.before.kind = "Master"
        /\ CallsOf(h, "notifyZone") # <<>>
        /\ h.changed
        /\ h.after = h.before

\* ----------------------------------------------------------------- C31

\* the first run was a state=present run of the zone module cut short by an
\* API error, and the run after it met none
IsRecovery ==
    /\ params.module = "zone"
    /\ params.state = "present"
    /\ Len(history) = 2
    /\ RemoteError(history[1])

\* C31: recovery by re-invocation. When a state=present run of the zone
\* module is cut short by a remote error (after any prefix of its mutating
\* calls took effect), the next run with the same parameters, the server
\* answering without error, does not fail and leaves the server as the
\* uninterrupted run from the first state would have; a further run from
\* there issues no mutating call and reports changed=false.
C31_RecoveryByReinvocation ==
    IsRecovery =>
        LET uninterrupted == zone_main(history[1].before, params, 0)
            further == zone_main(history[2].after, params, 0)
        IN /\ history[2].failed = uninterrupted.failed
           /\ ~uninterrupted.failed =>
                 /\ ~history[2].failed
                 /\ history[2].after = uninterrupted.srv
                 /\ ~further.failed
                 /\ further.changed = FALSE
                 /\ Mutating(further.calls) = <<>>

\* a creation was cut short after createZone, at a metadata call; the second
\* run found the zone, wrote the metadata that was missing and reached the
\* state of the uninterrupted creation
C31_Witness ==
    /\ IsRecovery
    /\ ~history[1].before.exists
    /\ CallsOf(history[1], "createZone") # <<>>
    /\ history[1].after.exists
    /\ history[1].calls[history[1].failAt].op = "modifyMetadata"
    /\ history[2].changed
    /\ ~history[2].failed
    /\ CallsOf(history[2], "modifyMetadata") # <<>>
    /\ server = zone_main(history[1].before, params, 0).srv

\* ----------------------------------------------------------------- C32

\* the calls of the run that returned without an API error: all of them, or
\* all but the last when the run ended in the API exception handler
Completed(h) ==
    IF EndedInApiError(h) THEN SubSeq(h.calls, 1, Len(h.calls) - 1) ELSE h.calls

\* C32: the changed flag is exact. In every module, at every exit,
\* successful or failed, changed=true is reported if and only if at least
\* one mutating remote call (create, put or patch, modify, delete, notify,
\* retrieve) of the run completed successfully.
C32_ChangedIsExact ==
    \A h \in Runs : h.changed <=> Mutating(Completed(h)) # <<>>

\* a zone update without a putZone failed at its second metadata call, the
\* first having succeeded, and reports changed=true
C32_Witness ==
    \E h \in Runs :
        /\ params.module = "zone"
        /\ params.state = "present"
        /\ h.before.exists
        /\ h.failed
        /\ EndedInApiError(h)
        /\ CallsOf(h, "putZone") = <<>>
        /\ Len(Mutating(Completed(h))) = 1
        /\ h.calls[Len(h.calls)].op \in {"modifyMetadata", "deleteMetadata"}
        /\ h.changed

\* ----------------------------------------------------------------- C33

\* C33: check mode performs no mutation. In every module a run in check
\* mode issues no mutating remote call, whatever the state asked for, leaves
\* the server as it was and reports changed=false.
C33_CheckModeNoMutation ==
    \A h \in Runs :
        params.check_mode =>
            /\ Mutating(h.calls) = <<>>
            /\ h.changed = FALSE
            /\ h.after = h.before

\* ----------------------------------------------------------------- C34

\* the wrapper methods that pass the wrapper's zone id to the server
ZoneScopedOps ==
    {"listZone", "putZone", "patchZone", "deleteZone", "notifyZone", "axfrRetrieveZone",
     "listMetadata", "modifyMetadata", "deleteMetadata",
     "listCryptokeys", "getCryptokey", "createCryptokey", "modifyCryptokey", "deleteCryptokey"}

\* call i of the run returned the id of the zone: a listZones lookup that
\* found the zone, or a createZone
GaveZoneId(h, i) ==
    \/ h.calls[i].op = "listZones" /\ h.before.exists
    \/ h.calls[i].op = "createZone"

\* C34: every zone-scoped remote call carries a resolved zone id. In the
\* zone, rrset and cryptokey modules each zone-scoped call is issued with
\* the zone's id, never a null one, and only after a listZones lookup that
\* found the zone or a createZone of the same run has returned; so on
\* creation the metadata calls come after the createZone that succeeded.
C34_ZoneScopedCallsCarryId ==
    \A h \in Runs :
        params.module \in {"zone", "rrset", "cryptokey"} =>
            \A j \in DOMAIN h.calls :
                h.calls[j].op \in ZoneScopedOps =>
                    /\ h.ids[j] = Some(ZoneName)
                    /\ \E i \in 1..(j - 1) : GaveZoneId(h, i)
                    /\ ~h.before.exists =>
                          \E i \in 1..(j - 1) :
                              /\ h.calls[i].op = "createZone"
                              /\ ~(RemoteError(h) /\ h.failAt = i)

\* a creation with metadata: createZone went out without an id, and the
\* metadata call after it carried the id of the zone created
C34_Witness ==
    \E h \in Runs :
        /\ params.module = "zone"
        /\ ~h.before.exists
        /\ Len(h.calls) >= 3
        /\ h.calls[1].op = "listZones"
        /\ h.ids[1] = None
        /\ h.calls[2].op = "createZone"
        /\ h.ids[2] = None
        /\ h.calls[3].op = "modifyMetadata"
        /\ h.ids[3] = Some(ZoneName)

\* ----------------------------------------------------------------- C35

\* the creation of a zone with a metadata block, all of whose calls returned
IsCreationWithMetadata(h) ==
    /\ IsCreation(h)
    /\ params.metadata # None
    /\ ~h.failed

\* the desired value is one a setter writes: true for Boolean and Presence,
\* not null for Ternary, a list or string that is not empty
IsWritten(type, value) ==
    CASE type \in {"Binary", "Presence"} -> value = Some(TRUE)
      [] type = "Ternary" -> value # None
      [] type = "List" -> value \notin {None, Some(<<>>)}
      [] type = "String" -> value \notin {None, Some("")}

\* the semantic value as the metadata endpoint is sent it
Encoded(type, value) ==
    CASE type \in {"Binary", "Ternary"} -> IF value[1] THEN <<"1">> ELSE <<"0">>
      [] type = "Presence" -> <<"">>
      [] type = "List" -> value[1]
      [] type = "String" -> << value[1] >>

\* C35: creation-time setters only write non-default values. When a zone
\* is created with a metadata block no deleteMetadata is called;
\* modifyMetadata is called for a mutable kind, once and with the encoded
\* value, exactly when its desired value is true (Boolean, Presence), not
\* null (Ternary), a non-empty list or a non-empty string, and never for an
\* immutable kind; and the creation payload holds the field of a mutable
\* zone-field kind exactly under the same condition.
C35_SettersWriteNonDefault ==
    \A h \in Runs :
        IsCreationWithMetadata(h) =>
            /\ CallsOf(h, "deleteMetadata") = <<>>
            /\ \A m \in Range(MetaRegistry) :
                  LET sent == SelectSeq(h.calls, LAMBDA c : c.op = "modifyMetadata"
                                                           /\ c.kind = m.api_kind)
                      value == params.metadata[1][m.meta]
                  IN IF m.meta \in MetaArgs /\ ~m.immutable /\ IsWritten(m.type, value)
                     THEN sent = << Modify(m.api_kind, Encoded(m.type, value)) >>
                     ELSE sent = <<>>
            /\ \A m \in Range(ZoneRegistry) :
                  LET field == CallsOf(h, "createZone")[1].payload[m.api_kind]
                      value == params.metadata[1][m.meta]
                  IN field # None <=>
                        (m.meta \in MetaArgs /\ ~m.immutable /\ IsWritten(m.type, value))

\* a zone was created with one Boolean item true and another false: a
\* modifyMetadata went out for the true one and no call for the false one
C35_Witness ==
    \E h \in Runs :
        /\ IsCreationWithMetadata(h)
        /\ params.metadata[1]["notify_dnsupdate"] = Some(TRUE)
        /\ params.metadata[1]["ixfr"] = Some(FALSE)
        /\ \E i \in DOMAIN h.calls : h.calls[i] = Modify("NOTIFY-DNSUPDATE", <<"1">>)
        /\ \A i \in DOMAIN h.calls : h.calls[i].kind # "IXFR"
        /\ CallsOf(h, "deleteMetadata") = <<>>

\* ----------------------------------------------------------------- C36

\* the Ternary items of the registry
TernaryItems == {m \in Range(MetaRegistry) : m.type = "Ternary"}

\* C36: Ternary explicit false is written as a value. In the zone module
\* and in the standalone module a state=present run with a desired Ternary
\* value of false, on a new zone or on a zone where the item is unset or
\* true, issues exactly one modifyMetadata carrying ["0"] for the item, and
\* no deleteMetadata for it.
C36_TernaryFalseWritten ==
    \A h \in Runs :
        \A m \in TernaryItems :
            (/\ params.module \in {"zone", "pdns_auth_zone"}
             /\ params.state = "present"
             /\ params.metadata # None
             /\ params.metadata[1][m.meta] = Some(FALSE)
             /\ h.before.meta[m.api_kind] \in {None, Some(<<"1">>)}
             /\ ~h.failed) =>
                SelectSeq(h.calls, LAMBDA c : c.kind = m.api_kind)
                    = << Modify(m.api_kind, <<"0">>) >>

\* ----------------------------------------------------------------- C37

\* the mutable items of both registries that the 'metadata' parameter names
MutableItems ==
    {m \in Range(MetaRegistry) \cup Range(ZoneRegistry) : ~m.immutable /\ m.meta \in MetaArgs}

\* the semantic value the setter or updater of item m is handed
SemanticValue(m) == value_or_default(m.type, params.metadata[1][m.meta])

\* C37: decode inverts encode for every metadata kind. After a state=present
\* run with a metadata block whose calls all returned (a creation, where the
\* setters write, or an update, where the updaters write or find the value
\* in place), the server storing what it was sent and dropping what was
\* deleted, the metadata decoded from the server's listing by
\* user_meta_from_api holds for every mutable kind the semantic value:
\* true or false for Boolean and Presence, true, false or omitted for
\* Ternary, the same list, the same string, an absent item being decoded
\* to the default.
C37_DecodeInvertsEncode ==
    \A h \in Runs :
        (/\ params.module = "zone"
         /\ params.state = "present"
         /\ params.metadata # None
         /\ ~h.failed) =>
            \A m \in MutableItems :
                /\ h.zone[1].metadata[m.meta] = SemanticValue(m)
                /\ build_zone_result(h.after).metadata[m.meta] = SemanticValue(m)

\* a Presence item was switched on for a zone that lacked it: the server
\* stores [""] and the listing decodes to true
C37_Witness ==
    \E h \in Runs :
        /\ params.module = "zone"
        /\ params.state = "present"
        /\ params.metadata # None
        /\ params.metadata[1]["forward_dnsupdate"] = Some(TRUE)
        /\ h.before.exists
        /\ h.before.meta["FORWARD-DNSUPDATE"] = None
        /\ ~h.failed
        /\ h.after.meta["FORWARD-DNSUPDATE"] = Some(<<"">>)
        /\ h.zone[1].metadata["forward_dnsupdate"] = Some(TRUE)

\* ----------------------------------------------------------------- C38

StartsWithQuote(v) == v # <<>> /\ Head(v) = Quote

EndsWithQuote(v) == v # <<>> /\ v[Len(v)] = Quote

\* v without its first and last character
Inner(v) == SubSeq(v, 2, Len(v) - 1)

\* v is between one pair of double quotes and no more
OnePair(v) ==
    /\ Len(v) >= 2
    /\ StartsWithQuote(v)
    /\ EndsWithQuote(v)
    /\ ~StartsWithQuote(Inner(v))
    /\ ~EndsWithQuote(Inner(v))

NoQuotes(v) == ~StartsWithQuote(v) /\ ~EndsWithQuote(v)

OnlyLeading(v) == StartsWithQuote(v) /\ ~EndsWithQuote(v) /\ ~StartsWithQuote(Tail(v))

OnlyTrailing(v) ==
    /\ EndsWithQuote(v)
    /\ ~StartsWithQuote(v)
    /\ ~EndsWithQuote(SubSeq(v, 1, Len(v) - 1))

\* the input shapes C38 names
Shaped(v) == NoQuotes(v) \/ OnePair(v) \/ OnlyLeading(v) \/ OnlyTrailing(v)

\* the text of a shaped value, its surrounding quotes left out
Bare(v) ==
    CASE NoQuotes(v) -> v
      [] OnePair(v) -> Inner(v)
      [] OnlyLeading(v) -> Tail(v)
      [] OnlyTrailing(v) -> SubSeq(v, 1, Len(v) - 1)

\* the records given through typed options, each with its type
TypedRecords ==
    {[type |-> params.typed[i].type, record |-> params.typed[i].records[j]] :
        i \in DOMAIN params.typed, j \in {1}}

\* the content C38 expects for a record of a typed option whose raw
\* sub-field is shaped
ExpectedContent(t) ==
    LET quoted(v) == "\"" \o str_raw(Bare(v)) \o "\""
    IN CASE t.type = "TXT" -> quoted(t.record.strings)
         [] t.type = "CAA" -> ToString(t.record.flags) \o " " \o t.record.tag \o " "
                                \o quoted(t.record.value)
         [] OTHER -> t.record.address

\* the raw sub-field of a record given through TXT or CAA
RawField(t) == IF t.type = "TXT" THEN t.record.strings ELSE t.record.value

\* C38: raw-field quote normalization. For every record given through a
\* typed option, each sub-field of type 'raw' is between exactly one pair of
\* double quotes after safe_string_record, whether the input had no quotes,
\* one pair, only a leading or only a trailing quote, the text between the
\* quotes being the input without its surrounding quotes; normalizing twice
\* gives what normalizing once gives; the other sub-fields are unchanged;
\* and the content a state=present run sends in its patch is assembled from
\* the normalized value.
C38_RawFieldQuoteNormalization ==
    (params.module = "rrset" /\ params.typed # <<>>) =>
        \A t \in TypedRecords :
            LET spec == record_spec(t.type)
                safe == safe_string_record(t.type, t.record)
            IN /\ \A i \in DOMAIN spec :
                    LET field == spec[i].name
                    IN IF spec[i].type = "raw"
                       THEN Shaped(t.record[field]) =>
                                /\ OnePair(safe[field])
                                /\ Inner(safe[field]) = Bare(t.record[field])
                       ELSE safe[field] = t.record[field]
               /\ safe.disabled = t.record.disabled
               /\ safe_string_record(t.type, safe) = safe
               /\ \A h \in Runs :
                    \A k \in DOMAIN h.calls :
                        (/\ t.type \in {"TXT", "CAA"}
                         /\ Shaped(RawField(t))
                         /\ params.state = "present"
                         /\ h.calls[k].op = "patchZone") =>
                            LET sent == h.calls[k].payload[1].records[1]
                            IN sent[Len(sent)].content = ExpectedContent(t)

\* a TXT record whose strings had only a leading quote was sent between one
\* pair of quotes
C38_Witness ==
    \E h \in Runs :
        /\ params.module = "rrset"
        /\ params.typed # <<>>
        /\ params.typed[1].type = "TXT"
        /\ params.typed[1].records[1].strings = << Quote, "a" >>
        /\ params.state = "present"
        /\ \E k \in DOMAIN h.calls :
               /\ h.calls[k].op = "patchZone"
               /\ h.calls[k].payload[1].records
                    = Some(<< [disabled |-> FALSE, content |-> "\"a\""] >>)
        /\ ~h.failed

\* ----------------------------------------------------------------- C39

\* the records the server holds for (name, type), None if it holds no such
\* RRset
RecordsAt(srv, name, type) ==
    LET hits == SelectSeq(srv.rrsets, LAMBDA r : r.name = name /\ r.type = type)
    IN IF hits = <<>> THEN None ELSE Some(Head(hits).records)

\* the RRsets the parameters give, as keep=true additions
Given == rrsets_struct([params EXCEPT !.state = "present", !.keep = TRUE])

\* none of the given records is among those the server holds for its RRset
NoneHeld(srv) ==
    \A i \in DOMAIN Given :
        LET held == RecordsAt(srv, Given[i].name, Given[i].type[1])
        IN \/ held = None
           \/ \A j \in DOMAIN Given[i].records[1] : ~InList(Given[i].records[1][j], held[1])

\* a state=present keep=true run h with records given, none of them held
\* before, and no remote error
IsAddition(h) ==
    /\ params.module = "rrset"
    /\ params.state = "present"
    /\ params.keep
    /\ h.before.exists
    /\ ~RemoteError(h)
    /\ \A i \in DOMAIN Given : Given[i].type # None /\ Given[i].records # None
    /\ NoneHeld(h.before)

\* the state=absent keep=true run with the same records that follows h
Removal(h) == rrset_main(h.after, [params EXCEPT !.state = "absent"], 0)

\* both runs complete and every given (name, type) holds what it held
RoundTrip(h) ==
    /\ ~h.failed
    /\ ~Removal(h).failed
    /\ \A i \in DOMAIN Given :
           RecordsAt(Removal(h).srv, Given[i].name, Given[i].type[1])
               = RecordsAt(h.before, Given[i].name, Given[i].type[1])

\* C39 as stated: RRset keep=true add-then-remove round trip. From any zone
\* state, state=present keep=true with records R for (name, type) followed
\* by state=absent keep=true with the same R, no record of R being present
\* initially, restores the RRset of (name, type) to its initial records (or
\* to absent), and both runs complete without error.
C39_AddThenRemoveRoundTrip ==
    \A h \in Runs : IsAddition(h) => RoundTrip(h)

\* C39 for a non-empty R: the round trip restores the initial records (or
\* the absence) of the RRset and both runs complete without error, when R
\* holds at least one record
C39_AddThenRemoveRoundTripNonEmpty ==
    \A h \in Runs :
        (IsAddition(h) /\ \A i \in DOMAIN Given : Given[i].records[1] # <<>>)
            => RoundTrip(h)

\* a record was added to an RRset that held another one, and the removal
\* would leave the one it held
C39_Witness ==
    \E h \in Runs :
        /\ IsAddition(h)
        /\ params.typed = <<>>
        /\ params.records = Some(<< [content |-> "192.0.2.2", disabled |-> FALSE] >>)
        /\ RecordsAt(h.before, RecordName, "A")
             = Some(<< [content |-> "192.0.2.1", disabled |-> FALSE] >>)
        /\ RecordsAt(h.after, RecordName, "A")
             = Some(<< [content |-> "192.0.2.1", disabled |-> FALSE],
                       [content |-> "192.0.2.2", disabled |-> FALSE] >>)
        /\ RecordsAt(Removal(h).srv, RecordName, "A")
             = Some(<< [content |-> "192.0.2.1", disabled |-> FALSE] >>)
        /\ Removal(h).changed

====
